---------------------------- MODULE Spec2Model ----------------------------
(***************************************************************************)
(* Model of the Pacifica TypeScript SDK: the HTTP transport with bounded,  *)
(* classified retry (BaseClient.get / BaseClient.post), the public client  *)
(* methods built on it (ApiClient, SignClient), and the request signer     *)
(* (buildSignedRequest) with its two transports, the key resolution and    *)
(* signature functions (generateKeypair, signMessage, verifySignature) and *)
(* the canonical encoder (sortJsonKeys, createCompactJson), and the        *)
(* streaming client (WebSocketClient) with its sockets, reconnect timers   *)
(* and subscription set.                                                   *)
(***************************************************************************)
EXTENDS Integers, Naturals, Sequences, FiniteSets, TLC

VARIABLES
    \* ---- BaseClient configuration (constructor) ----
    baseUrl,         \* this.baseUrl
    retryAttempts,   \* this.retryAttempts
    retryDelay,      \* this.retryDelay
    \* ---- one get/post call ----
    caller,          \* the public client method that issued the call
    pc,              \* position of the call: idle, fetch, rateLimitSleep, backoff, settled, done
    attempt,         \* loop variable of the retry loop
    lastStatus,      \* lastStatus (0 models undefined)
    lastError,       \* lastError (the error caught by the catch block)
    fetchCount,      \* number of fetch() calls issued so far
    log,             \* observable history: fetch outcomes and sleeps, in order
    httpResult,      \* how get/post settled
    callResult,      \* how the public method settled
    \* ---- credentials shared by SignClient and WebSocketClient ----
    privateKey,            \* this.privateKey (the key pair it belongs to)
    accountPublicKey,      \* this.accountPublicKey
    agentWalletPublicKey,  \* this.agentWalletPublicKey
    builderCode,           \* this.builderCode
    defaultExpiryWindow,   \* SignClient.defaultExpiryWindow
    \* ---- signing and sending ----
    now,             \* Date.now()
    readyState,      \* this.ws.readyState of the WebSocketClient (1 is OPEN)
    submitted,       \* the operation, payload and options the caller is submitting
    httpSent,        \* the last signed request handed to this.post
    wsPending,       \* the sendSignedOperation call that is awaiting its signature
    wsSent,          \* the last operation frame handed to this.ws.send, or the error thrown
    \* ---- generateKeypair, signMessage, verifySignature ----
    keyInput,        \* the privateKey argument of generateKeypair
    keyResult,       \* what generateKeypair returned or threw
    signedText,      \* the message given to signMessage
    signatureText,   \* the signature string in hand
    verified,        \* the last verifySignature call and its outcome
    \* ---- sortJsonKeys, createCompactJson ----
    jsonValue,       \* a value given to createCompactJson
    jsonOther,       \* a second value given to createCompactJson
    canonical,       \* the outcomes of canonicalizing jsonValue and jsonOther
    \* ---- WebSocketClient ----
    config,            \* this.config: reconnect, reconnectInterval, maxReconnectAttempts
    ws,                \* this.ws: the client's current socket (0 models null)
    sockets,           \* every socket created so far, by number: its readyState
    isConnecting,      \* this.isConnecting
    reconnectAttempts, \* this.reconnectAttempts
    reconnectTimer,    \* this.reconnectTimer: the timer last set (0 models null)
    timers,            \* every timer set so far, by number: its delay, whether pending
    subscriptions,     \* this.subscriptions, in insertion order
    eventHandlers,     \* this.eventHandlers: per event, its handlers in insertion order
    lastOp             \* the call or event handled last: frames sent, events emitted

httpVars == <<retryAttempts, retryDelay, caller, pc, attempt, lastStatus,
              lastError, fetchCount, log, httpResult, callResult>>

signVars == <<privateKey, accountPublicKey, agentWalletPublicKey, builderCode,
              defaultExpiryWindow, now, readyState, submitted, httpSent, wsPending, wsSent>>

keyVars == <<keyInput, keyResult, signedText, signatureText, verified>>

jsonVars == <<jsonValue, jsonOther, canonical>>

urlVars == <<baseUrl>>

wsVars == <<config, ws, sockets, isConnecting, reconnectAttempts, reconnectTimer,
            timers, subscriptions, eventHandlers, lastOp>>

vars == <<httpVars, signVars, keyVars, jsonVars, wsVars, urlVars>>

(* What the actions of one component leave alone *)
outsideHttp == <<signVars, keyVars, jsonVars, wsVars, urlVars>>
outsideSign == <<httpVars, keyVars, jsonVars, wsVars, urlVars>>
outsideKeys == <<httpVars, signVars, jsonVars, wsVars, urlVars>>
outsideJson == <<httpVars, signVars, keyVars, wsVars, urlVars>>
outsideWs == <<httpVars, signVars, keyVars, jsonVars, urlVars>>

-----------------------------------------------------------------------------
(* Bounds of the model *)

MaxRetryAttempts == 2

(* Date.now() runs from 1 up to MaxNow *)
MaxNow == 2

(* Sockets a WebSocketClient creates in one behaviour *)
MaxSockets == 3

(* The configured maxReconnectAttempts *)
MaxReconnectAttempts == 2

(* Configured base delays: the default of the constructor and the value   *)
(* the retry tests use.                                                    *)
RetryDelays == {1000, 50}

-----------------------------------------------------------------------------
(* Values *)

RECURSIVE Pow2(_)
Pow2(k) == IF k <= 0 THEN 1 ELSE 2 * Pow2(k - 1)

(* NaN, the result of parseInt on a string that does not start with a      *)
(* number, is represented by a value no delay can take.                    *)
NaN == 0 - 1

Truthy(n) == n # 0 /\ n # NaN

(* HTTP statuses a response may carry. *)
Statuses == {200, 304, 400, 404, 429, 500, 503}

(* Values of the Retry-After header: absent (headers.get gives null),     *)
(* whole seconds, fractional seconds (as the retry test sends), and the    *)
(* HTTP-date form.                                                         *)
RetryAfterHeaders == {"absent", "0", "2", "0.1", "date"}

(* parseInt(retryAfter) on the header values above *)
ParseInt(h) ==
    CASE h = "0"    -> 0
      [] h = "2"    -> 2
      [] h = "0.1"  -> 0
      [] OTHER      -> NaN

(* NaN * 1000 is NaN *)
TimesThousand(n) == IF n = NaN THEN NaN ELSE n * 1000

(* What one fetch() can do: reject with a network-level error, be aborted  *)
(* by the timeout timer, or resolve with a response.  bodyOk tells whether *)
(* response.json() of a 2xx response resolves.                             *)
Outcomes ==
    { [kind |-> "network", status |-> 0, retryAfter |-> "absent", bodyOk |-> TRUE],
      [kind |-> "abort",   status |-> 0, retryAfter |-> "absent", bodyOk |-> TRUE] }
    \cup { [kind |-> "response", status |-> s, retryAfter |-> "absent", bodyOk |-> TRUE]
             : s \in Statuses }
    \cup { [kind |-> "response", status |-> 429, retryAfter |-> h, bodyOk |-> TRUE]
             : h \in RetryAfterHeaders }
    \cup { [kind |-> "response", status |-> 200, retryAfter |-> "absent", bodyOk |-> FALSE] }

(* Errors.  type is the class (or the name of a foreign error), status is  *)
(* APIError.status, retryAfter is RateLimitError.retryAfter.               *)
Err(t, s, r) == [type |-> t, status |-> s, retryAfter |-> r]
NoError == Err("none", 0, 0)

APIError(s)        == Err("APIError", s, 0)
RateLimitError(ms) == Err("RateLimitError", 0, ms)
TimeoutError       == Err("TimeoutError", 0, 0)
NetworkError       == Err("NetworkError", 0, 0)
GenericError       == Err("Error", 0, 0)

Pending        == [state |-> "pending",  error |-> NoError, value |-> 0]
Returned(v)    == [state |-> "returned", error |-> NoError, value |-> v]
Thrown(e)      == [state |-> "thrown",   error |-> e,       value |-> 0]

FetchEvent(k, o) == [ev |-> "fetch", attempt |-> k, outcome |-> o, ms |-> 0, site |-> "fetch"]
SleepEvent(k, ms, where) ==
    [ev |-> "sleep", attempt |-> k,
     outcome |-> [kind |-> "none", status |-> 0, retryAfter |-> "absent", bodyOk |-> TRUE],
     ms |-> ms, site |-> where]

-----------------------------------------------------------------------------
(* Public client methods.  The five market-data getters of ApiClient wrap  *)
(* get in a try/catch; the others return the promise of get/post.          *)

MarketDataMethods == {"getMarketInfo", "getTicker", "getTickers", "getOrderBook", "getTrades"}
PlainGetMethods   == {"getOrder", "getPositions"}
PostMethods       == {"makeSignedRequest", "batchOrders"}
Methods           == MarketDataMethods \cup PlainGetMethods \cup PostMethods


-----------------------------------------------------------------------------
(* BaseClient.get / BaseClient.post: the retry loop *)

(* for (let attempt = 0; attempt <= this.retryAttempts; attempt++) *)
LoopCondition(a) == a <= retryAttempts

(* Mutant: the catch block stops retrying one attempt early *)
AttemptsRemain_OneShort(a) == a < retryAttempts - 1

(* the guard `attempt < this.retryAttempts` of the catch block *)
AttemptsRemain(a) == a < retryAttempts

(* Mutant: the exponent is not shifted by one *)
BackoffDelay_Unshifted(a) == retryDelay * Pow2(a)

(* const delay = this.retryDelay * Math.pow(2, attempt - 1) *)
BackoffDelay(a) == retryDelay * Pow2(a - 1)

(* retryAfter ? parseInt(retryAfter) * 1000 : this.retryDelay * Math.pow(2, attempt) *)
RetryAfterMs(h, a) ==
    IF h # "absent" THEN TimesThousand(ParseInt(h)) ELSE retryDelay * Pow2(a)

(* error.retryAfter || this.retryDelay * Math.pow(2, attempt) *)
RateLimitDelay(e, a) ==
    IF Truthy(e.retryAfter) THEN e.retryAfter ELSE retryDelay * Pow2(a)

(* Mutant: status 200 is not counted as ok *)
ResponseOk_Above200(s) == s > 200 /\ s <= 299

(* response.ok *)
ResponseOk(s) == s >= 200 /\ s <= 299

(* lastStatus after the try block: assigned only when fetch resolved *)
StatusAfter(o, ls) == IF o.kind = "response" THEN o.status ELSE ls

(* The try block succeeds: a 2xx response whose body parses *)
TrySucceeds(o) == o.kind = "response" /\ ResponseOk(o.status) /\ o.bodyOk

(* The error the try block throws for an outcome that does not succeed *)
ErrorThrown(o, a) ==
    CASE o.kind = "network" -> Err("TypeError", 0, 0)
      [] o.kind = "abort"   -> Err("AbortError", 0, 0)
      [] o.kind = "response" /\ o.status = 429 ->
            RateLimitError(RetryAfterMs(o.retryAfter, a))
      [] o.kind = "response" /\ ~ResponseOk(o.status) -> APIError(o.status)
      [] OTHER -> Err("SyntaxError", 0, 0)

IsTyped(e) == e.type \in {"APIError", "RateLimitError", "TimeoutError"}

(* Mutant: 5xx statuses are not retryable *)
isRetryableError_No5xx(e, status) ==
    \/ e.type = "NetworkError"
    \/ ~(e.type \in {"APIError", "RateLimitError", "TimeoutError"}) /\ status = 0
    \/ status = 429

(* private isRetryableError(error, status) *)
isRetryableError(e, status) ==
    \/ e.type = "NetworkError"
    \/ ~IsTyped(e) /\ status = 0
    \/ status # 0 /\ status >= 500
    \/ status = 429

(* Mutant: a timeout is thrown at once, whatever attempts remain *)
CatchDecision_TimeoutFatal(e, ls, a) ==
    CASE e.type = "RateLimitError" /\ a < retryAttempts ->
            [next |-> "rateLimitSleep", error |-> e]
      [] ~(e.type = "RateLimitError" /\ a < retryAttempts) /\ e.type = "AbortError" ->
            [next |-> "throw", error |-> Err("TimeoutError", 0, 0)]
      [] OTHER ->
            IF (e.type = "NetworkError" \/ ls >= 500 \/ ls = 429
                  \/ (ls = 0 /\ ~(e.type \in {"APIError", "RateLimitError", "TimeoutError"})))
               /\ a < retryAttempts
            THEN [next |-> "continue", error |-> e]
            ELSE IF e.type \in {"APIError", "RateLimitError", "TimeoutError"}
            THEN [next |-> "throw", error |-> e]
            ELSE IF ls # 0
            THEN [next |-> "throw", error |-> Err("APIError", ls, 0)]
            ELSE [next |-> "throw", error |-> Err("NetworkError", 0, 0)]

(* The catch block: what the loop does with a caught error.  ls is         *)
(* lastStatus as the try block left it.                                    *)
CatchDecision(e, ls, a) ==
    CASE e.type = "RateLimitError" /\ AttemptsRemain(a) ->
            [next |-> "rateLimitSleep", error |-> e]
      [] ~(e.type = "RateLimitError" /\ AttemptsRemain(a)) /\ e.type = "AbortError" ->
            IF AttemptsRemain(a)
            THEN [next |-> "continue", error |-> e]
            ELSE [next |-> "throw", error |-> TimeoutError]
      [] OTHER ->
            IF isRetryableError(e, ls) /\ AttemptsRemain(a)
            THEN [next |-> "continue", error |-> e]
            ELSE IF IsTyped(e)
            THEN [next |-> "throw", error |-> e]
            ELSE IF ls # 0
            THEN [next |-> "throw", error |-> APIError(ls)]
            ELSE [next |-> "throw", error |-> NetworkError]

(* URLs and endpoint paths are sequences of pieces; '/api/v1', a single   *)
(* '/' and the scheme with the host are pieces of their own.               *)
ApiV1 == "/api/v1"
Slash == "/"
Host == "https://h"
DefaultBaseUrl == <<"https://api.pacifica.fi", ApiV1>>

(* The baseUrl argument of the constructor: not given, or a host with or   *)
(* without the version prefix and a trailing slash                         *)
NoBaseUrl == <<>>
GivenBaseUrls ==
    {NoBaseUrl, <<Host>>, <<Host, Slash>>, <<Host, ApiV1>>, <<Host, ApiV1, Slash>>}

(* String.prototype.endsWith *)
EndsWith(text, suffix) ==
    /\ Len(text) >= Len(suffix)
    /\ SubSeq(text, Len(text) - Len(suffix) + 1, Len(text)) = suffix

(* baseUrl.replace(/\/$/, '') *)
StripTrailingSlash(text) ==
    IF EndsWith(text, <<Slash>>) THEN SubSeq(text, 1, Len(text) - 1) ELSE text

(* BaseClient.constructor: this.baseUrl *)
BaseClientUrl(given) ==
    IF given # NoBaseUrl
    THEN IF EndsWith(given, <<ApiV1>>) THEN given
         ELSE IF EndsWith(given, <<ApiV1, Slash>>) THEN SubSeq(given, 1, Len(given) - 1)
         ELSE StripTrailingSlash(given) \o <<ApiV1>>
    ELSE DefaultBaseUrl

(* The endpoint literals of the client methods, in pieces *)
EndpointPath(endpoint) ==
    IF endpoint = "/api/v1/orders/stop/create"
    THEN <<ApiV1, "/orders/stop/create">>
    ELSE <<endpoint>>

(* post: const url = `${this.baseUrl}${endpoint}` *)
UrlOf(base, endpoint) == base \o EndpointPath(endpoint)

HttpInit ==
    /\ baseUrl = BaseClientUrl(NoBaseUrl)
    /\ retryAttempts \in 0..MaxRetryAttempts
    /\ retryDelay \in RetryDelays
    /\ caller = "none"
    /\ pc = "idle"
    /\ attempt = 0
    /\ lastStatus = 0
    /\ lastError = NoError
    /\ fetchCount = 0
    /\ log = <<>>
    /\ httpResult = Pending
    /\ callResult = Pending

(* A public method calls get or post: the loop starts with attempt 0,      *)
(* which sleeps nothing before its fetch.  A loop whose condition fails    *)
(* falls through to `throw lastError`.                                     *)
Call(m) ==
    /\ pc = "idle"
    /\ caller' = m
    /\ attempt' = 0
    /\ IF LoopCondition(0)
       THEN pc' = "fetch" /\ UNCHANGED httpResult
       ELSE pc' = "settled" /\ httpResult' = Thrown(lastError)
    /\ UNCHANGED <<retryAttempts, retryDelay, lastStatus, lastError, fetchCount,
                   log, callResult>>
    /\ UNCHANGED outsideHttp

(* Top of a later iteration: the exponential backoff sleep, or the end of  *)
(* the loop and `throw lastError`.                                         *)
Backoff ==
    /\ pc = "backoff"
    /\ IF LoopCondition(attempt)
       THEN /\ log' = Append(log, SleepEvent(attempt, BackoffDelay(attempt), "backoff"))
            /\ pc' = "fetch"
            /\ UNCHANGED httpResult
       ELSE /\ pc' = "settled"
            /\ httpResult' = Thrown(lastError)
            /\ UNCHANGED log
    /\ UNCHANGED <<retryAttempts, retryDelay, caller, attempt, lastStatus,
                   lastError, fetchCount, callResult>>
    /\ UNCHANGED outsideHttp

(* fetch() settles with outcome o; the rest of the try block and the       *)
(* catch block run up to the next await.                                   *)
Fetch(o) ==
    /\ pc = "fetch"
    /\ fetchCount' = fetchCount + 1
    /\ log' = Append(log, FetchEvent(attempt, o))
    /\ lastStatus' = StatusAfter(o, lastStatus)
    /\ IF TrySucceeds(o)
       THEN /\ httpResult' = Returned(fetchCount + 1)
            /\ pc' = "settled"
            /\ UNCHANGED <<attempt, lastError>>
       ELSE LET e == ErrorThrown(o, attempt)
                d == CatchDecision(e, StatusAfter(o, lastStatus), attempt)
            IN  /\ lastError' = e
                /\ CASE d.next = "rateLimitSleep" ->
                          /\ pc' = "rateLimitSleep"
                          /\ UNCHANGED <<attempt, httpResult>>
                     [] d.next = "continue" ->
                          /\ pc' = "backoff"
                          /\ attempt' = attempt + 1
                          /\ UNCHANGED httpResult
                     [] OTHER ->
                          /\ pc' = "settled"
                          /\ httpResult' = Thrown(d.error)
                          /\ UNCHANGED attempt
    /\ UNCHANGED <<retryAttempts, retryDelay, caller, callResult>>
    /\ UNCHANGED outsideHttp

(* await this.sleep(error.retryAfter || ...); continue; *)
RateLimitSleep ==
    /\ pc = "rateLimitSleep"
    /\ log' = Append(log, SleepEvent(attempt, RateLimitDelay(lastError, attempt), "rateLimit"))
    /\ attempt' = attempt + 1
    /\ pc' = "backoff"
    /\ UNCHANGED <<retryAttempts, retryDelay, caller, lastStatus, lastError,
                   fetchCount, httpResult, callResult>>
    /\ UNCHANGED outsideHttp

(* The public method settles.  The market-data getters replace an error    *)
(* whose status is 404; every other method hands the promise through.      *)
MethodResult(m, r) ==
    IF m \in MarketDataMethods /\ r.state = "thrown" /\ r.error.status = 404
    THEN Thrown(GenericError)
    ELSE r

MethodSettles ==
    /\ pc = "settled"
    /\ callResult' = MethodResult(caller, httpResult)
    /\ pc' = "done"
    /\ UNCHANGED <<retryAttempts, retryDelay, caller, attempt, lastStatus,
                   lastError, fetchCount, log, httpResult>>
    /\ UNCHANGED outsideHttp

-----------------------------------------------------------------------------
(* JSON-like values.  A value is a number, a string, undefined, null, a    *)
(* function, a public key in one of its text encodings, a signature, an    *)
(* array or an object; an object is the sequence of its (key, value) pairs *)
(* in property order (the order Object.keys and JSON.stringify see).       *)

Num(n)    == [n |-> n]
Str(x)    == [s |-> x]
Undefined == [u |-> TRUE]
KeyStr(x) == [id |-> x]
SigStr(x) == [sig |-> x]
Obj(ps)   == [o |-> ps]
IsObj(v)  == "o" \in DOMAIN v
Null      == [null |-> TRUE]
Bool(b)   == [bool |-> b]
Function  == [f |-> TRUE]
Arr(es)   == [a |-> es]
IsArr(v)  == "a" \in DOMAIN v

Pair(k, v) == [k |-> k, v |-> v]
Keys(ps)   == {ps[i].k : i \in DOMAIN ps}
Has(ps, k) == k \in Keys(ps)
Get(ps, k) == ps[CHOOSE i \in DOMAIN ps : ps[i].k = k].v

(* Property names that are array indices (canonical numeric strings), with *)
(* their numeric values: an object keeps these first, in ascending numeric *)
(* order, before every other name.                                         *)
IndexValue == [k \in {"9", "10"} |-> IF k = "9" THEN 9 ELSE 10]
IsIndex(k) == k \in DOMAIN IndexValue

(* The number of properties a new index key k goes after *)
IndexPosition(ps, k) ==
    Cardinality({i \in DOMAIN ps :
                    IsIndex(ps[i].k) /\ IndexValue[ps[i].k] < IndexValue[k]})

(* obj[k] = v on an object: an existing property keeps its place, a new    *)
(* index key goes among the index keys, any other new key goes last.       *)
SetField(ps, k, v) ==
    IF Has(ps, k)
    THEN [i \in DOMAIN ps |-> IF ps[i].k = k THEN Pair(k, v) ELSE ps[i]]
    ELSE IF IsIndex(k)
    THEN LET n == IndexPosition(ps, k)
         IN  SubSeq(ps, 1, n) \o <<Pair(k, v)>> \o SubSeq(ps, n + 1, Len(ps))
    ELSE Append(ps, Pair(k, v))

(* { ...a, ...b } *)
RECURSIVE SpreadFrom(_, _, _)
SpreadFrom(a, b, i) ==
    IF i > Len(b) THEN a ELSE SpreadFrom(SetField(a, b[i].k, b[i].v), b, i + 1)
Spread(a, b) == SpreadFrom(a, b, 1)

(* The property names that occur, in the order Array.prototype.sort gives  *)
(* them (ascending UTF-16 code units).                                     *)
KeyOrder == <<"10", "9", "a", "account", "agent_wallet", "amount", "b",
              "builder_code", "data", "duration_in_seconds", "expiry_window", "m",
              "operation", "order_id", "order_type", "price", "reduce_only", "side",
              "signature", "size", "slippage_percent", "symbol", "timestamp",
              "type", "z">>

(* sortJsonKeys: an array is mapped element by element; for an object the  *)
(* keys are sorted and assigned, in that order, to a new object.           *)
(* SortedKeys(ps) is Object.keys(obj).sort(); SortedFrom(ps, keys, r) is   *)
(* the new object after the first r of the sorted keys.                    *)
sortJsonKeys_KeepsOrder(v) == v

SortedKeys(ps) == SelectSeq(KeyOrder, LAMBDA k : Has(ps, k))

RECURSIVE sortJsonKeys(_), SortedFrom(_, _, _)
SortedFrom(ps, keys, r) ==
    IF r = 0 THEN <<>>
    ELSE SetField(SortedFrom(ps, keys, r - 1), keys[r],
                  sortJsonKeys(Get(ps, keys[r])))
sortJsonKeys(v) ==
    IF IsObj(v) THEN LET keys == SortedKeys(v.o)
                     IN  Obj(SortedFrom(v.o, keys, Len(keys)))
    ELSE IF IsArr(v) THEN Arr([i \in DOMAIN v.a |-> sortJsonKeys(v.a[i])])
    ELSE v

(* JSON.stringify: the text as a sequence of tokens, with no whitespace.   *)
(* A property whose value is undefined or a function is left out; an array *)
(* element that is undefined or a function is written as null.             *)
Punct(c)  == [p |-> c]
KeyTok(k) == [key |-> k]
Unrendered(v) == v = Undefined \/ v = Function
RECURSIVE Stringify(_), StringifyPairs(_, _, _), StringifyElements(_, _)
StringifyPairs(ps, i, first) ==
    IF i > Len(ps) THEN <<>>
    ELSE IF Unrendered(ps[i].v) THEN StringifyPairs(ps, i + 1, first)
    ELSE (IF first THEN <<>> ELSE <<Punct(",")>>)
         \o <<KeyTok(ps[i].k), Punct(":")>> \o Stringify(ps[i].v)
         \o StringifyPairs(ps, i + 1, FALSE)
StringifyElements(es, i) ==
    IF i > Len(es) THEN <<>>
    ELSE (IF i = 1 THEN <<>> ELSE <<Punct(",")>>)
         \o (IF Unrendered(es[i]) THEN <<Null>> ELSE Stringify(es[i]))
         \o StringifyElements(es, i + 1)
Stringify(v) ==
    IF IsObj(v)
    THEN <<Punct("{")>> \o StringifyPairs(v.o, 1, TRUE) \o <<Punct("}")>>
    ELSE IF IsArr(v)
    THEN <<Punct("[")>> \o StringifyElements(v.a, 1) \o <<Punct("]")>>
    ELSE <<v>>

(* createCompactJson *)
createCompactJson(v) == Stringify(sortJsonKeys(v))

-----------------------------------------------------------------------------
(* Keys and identities *)

(* Key pairs: the account's own and an agent wallet's *)
KeyPairs == {"K1", "K2"}

(* Text encodings of a public key *)
Hex(k)   == [enc |-> "hex", key |-> k]
Hex0x(k) == [enc |-> "0xhex", key |-> k]
B58(k)   == [enc |-> "base58", key |-> k]
NoKey    == [enc |-> "none", key |-> "none"]

(* generateKeypair(privateKey).publicKey, and publicKeyToHex of it *)
PublicKeyOf(pk) == pk
publicKeyToHex(k) == Hex(k)

(* Length of an Ed25519 signature in bytes *)
SignatureBytes == 64

(* signMessage: an Ed25519 signature is determined by the message and the  *)
(* key, and names both; the string returned is bs58.encode of its bytes.   *)
signMessage(message, pk) ==
    [msg |-> message, signer |-> pk, enc |-> "base58", len |-> SignatureBytes]

(* signWithHardwareWallet: the external signer signs with the device's key *)
signWithHardwareWallet(message) ==
    [msg |-> message, signer |-> "hardware", enc |-> "base58", len |-> SignatureBytes]

(* buildSignedRequest: the account address from accountPublicKey *)
AccountAddress(acct, pk) ==
    IF acct # NoKey
    THEN (IF acct.enc \in {"0xhex", "hex"} THEN B58(acct.key) ELSE acct)
    ELSE B58(PublicKeyOf(pk))

(* createSignatureHeader(expiryWindow) at time ts *)
createSignatureHeader(ew, ts) ==
    IF ew # Undefined
    THEN <<Pair("timestamp", Num(ts)), Pair("expiry_window", ew)>>
    ELSE <<Pair("timestamp", Num(ts))>>

(* The message that is signed: { type, timestamp, expiry_window?, data } *)
MessagePayload(operation, header, data) ==
    LET base == <<Pair("type", Str(operation)), Pair("timestamp", Get(header, "timestamp"))>>
        withEw == IF Has(header, "expiry_window")
                  THEN Spread(base, <<Pair("expiry_window", Get(header, "expiry_window"))>>)
                  ELSE base
    IN  Obj(SetField(withEw, "data", data))

(* buildSignedRequest(operation, data, privateKey, accountPublicKey,       *)
(* expiryWindow) at time ts: the SignedRequest and the message signed.     *)
buildSignedRequest(operation, data, pk, acct, ew, ts) ==
    LET header == createSignatureHeader(ew, ts)
        messagePayload == MessagePayload(operation, header, data)
        compactJson == createCompactJson(messagePayload)
        signature == signMessage(compactJson, pk)
        request == <<Pair("account", KeyStr(AccountAddress(acct, pk))),
                     Pair("signature", SigStr(signature)),
                     Pair("operation", Str(operation)),
                     Pair("data", data),
                     Pair("timestamp", Num(ts))>>
    IN  [request |-> IF ew # Undefined
                     THEN SetField(request, "expiry_window", ew)
                     ELSE request,
         signed |-> messagePayload]

(* accountPublicKey.startsWith('0x') ? accountPublicKey.slice(2) : accountPublicKey *)
StripPrefix(acct) == IF acct.enc = "0xhex" THEN Hex(acct.key) ELSE acct

(* buildSignedRequestWithHardwareWallet *)
buildSignedRequestWithHardwareWallet(operation, data, acct, ew, ts) ==
    LET header == createSignatureHeader(ew, ts)
        messagePayload == MessagePayload(operation, header, data)
        compactJson == createCompactJson(messagePayload)
        signature == signWithHardwareWallet(compactJson)
        fixed == <<Pair("account", KeyStr(StripPrefix(acct))),
                   Pair("signature", SigStr(signature)),
                   Pair("timestamp", Get(header, "timestamp"))>>
        withEw == IF Has(header, "expiry_window")
                  THEN Spread(fixed, <<Pair("expiry_window", Get(header, "expiry_window"))>>)
                  ELSE fixed
    IN  [request |-> Spread(withEw, data.o), signed |-> messagePayload]

-----------------------------------------------------------------------------
(* SignClient.makeSignedRequest and WebSocketClient.sendSignedOperation *)

(* private defaultExpiryWindow: number = 5000 *)
DefaultExpiryWindow == 5000

Operations == {"create_order", "cancel_order"}

(* Payloads a caller passes as data *)
Payloads ==
    { Obj(<<>>),
      Obj(<<Pair("order_id", Num(7))>>),
      Obj(<<Pair("symbol", Str("BTC")), Pair("order_id", Num(7))>>),
      Obj(<<Pair("symbol", Str("BTC")), Pair("price", Undefined)>>),
      Obj(<<Pair("symbol", Str("BTC")), Pair("timestamp", Num(0))>>) }

(* options.agent_wallet *)
AgentOptions == {NoKey, B58("K2")}

NoRequest == [operation |-> "none", data |-> Obj(<<>>), agent_wallet |-> NoKey]

NothingSent ==
    [state |-> "none", hardware |-> FALSE, payload |-> Obj(<<>>), body |-> <<>>,
     agent_wallet |-> NoKey, signed |-> Obj(<<>>), at |-> 0]

(* params.k read as a condition: absent, undefined, null, '', 0 and false  *)
(* are falsy                                                               *)
TruthyField(ps, k) ==
    Has(ps, k) /\ Get(ps, k) \notin {Undefined, Null, Str(""), Num(0), Bool(FALSE)}

(* mergeBuilderCode: builder_code is added unless the params carry one *)
mergeBuilderCode(code, params) ==
    IF code # "" /\ ~TruthyField(params.o, "builder_code")
    THEN Obj(Spread(params.o, <<Pair("builder_code", Str(code))>>))
    ELSE params

(* The SignClient methods that merge the builder code before signing       *)
(* (createLimitOrder, createMarketOrder, ...); cancelOrder does not.       *)
BuilderCodeOperations == {"create_order"}

(* The credentials a client is constructed with: an account signing for    *)
(* itself (its public key given in any encoding, or not at all), or an     *)
(* agent wallet key signing for the account.                               *)
SignInit ==
    /\ \/ /\ privateKey = "K1"
          /\ accountPublicKey \in {NoKey, Hex("K1"), Hex0x("K1"), B58("K1")}
          /\ agentWalletPublicKey = NoKey
       \/ /\ privateKey = "K2"
          /\ accountPublicKey \in {Hex("K1"), B58("K1")}
          /\ agentWalletPublicKey = B58("K2")
    /\ builderCode \in {"", "BUILDER"}
    /\ defaultExpiryWindow = DefaultExpiryWindow
    /\ now = 1
    /\ readyState = 3
    /\ submitted = NoRequest
    /\ httpSent = NothingSent
    /\ wsPending = FALSE
    /\ wsSent = NothingSent

(* The caller decides on an operation, its payload and its options; the    *)
(* same request can then be sent over either transport.  The clients keep  *)
(* no state from one request to the next, so one request is followed.      *)
CallerPrepares(operation, data, optAgent) ==
    /\ submitted = NoRequest
    /\ submitted' = [operation |-> operation, data |-> data, agent_wallet |-> optAgent]
    /\ UNCHANGED <<privateKey, accountPublicKey, agentWalletPublicKey, builderCode,
                   defaultExpiryWindow, now, readyState, httpSent, wsPending, wsSent>>
    /\ UNCHANGED outsideSign

(* makeSignedRequest: const requestBody = { account, signature, timestamp, *)
(* expiry_window?, ...data } from the SignedRequest                        *)
requestBody(signedRequest, data) ==
    LET fixed == <<Pair("account", Get(signedRequest, "account")),
                   Pair("signature", Get(signedRequest, "signature")),
                   Pair("timestamp", Get(signedRequest, "timestamp"))>>
        withEw == IF Has(signedRequest, "expiry_window")
                  THEN Spread(fixed, <<Pair("expiry_window",
                                            Get(signedRequest, "expiry_window"))>>)
                  ELSE fixed
    IN  Spread(withEw, data.o)

(* The account identity makeSignedRequest signs for: this.accountPublicKey, *)
(* or publicKeyToHex of the key derived from the private key               *)
accountOf(acct, pk) ==
    IF acct # NoKey THEN acct ELSE publicKeyToHex(PublicKeyOf(pk))

(* A SignClient method and its private async makeSignedRequest(endpoint,    *)
(* operation, data, options)                                               *)
makeSignedRequest(hardware) ==
    /\ submitted # NoRequest
    /\ LET operation == submitted.operation
           data == IF operation \in BuilderCodeOperations
                   THEN mergeBuilderCode(builderCode, submitted.data)
                   ELSE submitted.data
           agentWallet == IF submitted.agent_wallet # NoKey THEN submitted.agent_wallet
                          ELSE agentWalletPublicKey
           acct == accountOf(accountPublicKey, privateKey)
           ew == Num(defaultExpiryWindow)
           hw == buildSignedRequestWithHardwareWallet(operation, data, acct, ew, now)
           sr == buildSignedRequest(operation, data, privateKey, acct, ew, now)
       IN  httpSent' = [state |-> "sent", hardware |-> hardware, payload |-> data,
                        body |-> IF hardware THEN hw.request
                                 ELSE requestBody(sr.request, data),
                        agent_wallet |-> agentWallet,
                        signed |-> IF hardware THEN hw.signed ELSE sr.signed,
                        at |-> now]
    /\ UNCHANGED <<privateKey, accountPublicKey, agentWalletPublicKey, builderCode,
                   defaultExpiryWindow, now, readyState, submitted, wsPending, wsSent>>
    /\ UNCHANGED outsideSign

(* ---- The order methods of SignClient ---- *)

(* What a method call came to: an exception, or the request it sent *)
MethodThrew(method, params, text) ==
    [state |-> "thrown", method |-> method, params |-> params, error |-> text]

(* makeSignedRequest(endpoint, operation, data, options) as a method calls *)
(* it: the body posted to the endpoint and the message that was signed     *)
SignedRequestSent(method, params, endpoint, operation, data, optAgent) ==
    LET acct == accountOf(accountPublicKey, privateKey)
        sr == buildSignedRequest(operation, data, privateKey, acct,
                                 Num(defaultExpiryWindow), now)
    IN  [state |-> "sent", method |-> method, params |-> params,
         endpoint |-> endpoint, url |-> UrlOf(baseUrl, endpoint),
         operation |-> operation, payload |-> data,
         body |-> requestBody(sr.request, data), signed |-> sr.signed,
         agent_wallet |-> IF optAgent # NoKey THEN optAgent ELSE agentWalletPublicKey,
         hardware |-> FALSE, at |-> now]

(* const { order_type, ...rest } = params *)
Without(ps, k) == SelectSeq(ps, LAMBDA q : q.k # k)

(* parseFloat of the price strings that occur *)
ParseFloat(v) == IF v = Str("50000") THEN 50000 ELSE IF v = Str("0") THEN 0 ELSE NaN

createLimitOrder(params, optAgent) ==
    IF ~TruthyField(params.o, "side")
    THEN MethodThrew("createLimitOrder", params, "Order side is required")
    ELSE IF ~TruthyField(params.o, "amount") /\ ~TruthyField(params.o, "size")
    THEN MethodThrew("createLimitOrder", params, "Order amount or size is required")
    ELSE IF ~TruthyField(params.o, "price")
    THEN MethodThrew("createLimitOrder", params, "Price is required for limit orders")
    ELSE IF ParseFloat(Get(params.o, "price")) # NaN /\ ParseFloat(Get(params.o, "price")) <= 0
    THEN MethodThrew("createLimitOrder", params, "Order price must be greater than 0")
    ELSE SignedRequestSent("createLimitOrder", params, "/orders/create", "create_order",
             mergeBuilderCode(builderCode, Obj(Without(params.o, "order_type"))), optAgent)

createMarketOrder(method, params, optAgent) ==
    IF ~TruthyField(params.o, "side")
    THEN MethodThrew(method, params, "Order side is required")
    ELSE IF ~TruthyField(params.o, "amount") /\ ~TruthyField(params.o, "size")
    THEN MethodThrew(method, params, "Order amount or size is required")
    ELSE IF ~TruthyField(params.o, "slippage_percent")
    THEN MethodThrew(method, params, "slippage_percent is required for market orders")
    ELSE SignedRequestSent(method, params, "/orders/create_market", "create_market_order",
             mergeBuilderCode(builderCode, Obj(Without(params.o, "order_type"))), optAgent)

createStopOrder(params, optAgent) ==
    SignedRequestSent("createStopOrder", params, "/api/v1/orders/stop/create",
                      "create_stop_order", mergeBuilderCode(builderCode, params), optAgent)

createTWAPOrder(params, optAgent) ==
    IF ~TruthyField(params.o, "side")
    THEN MethodThrew("createTWAPOrder", params, "Order side is required")
    ELSE IF ~TruthyField(params.o, "amount")
    THEN MethodThrew("createTWAPOrder", params, "Order amount is required")
    ELSE IF ~TruthyField(params.o, "slippage_percent")
    THEN MethodThrew("createTWAPOrder", params, "slippage_percent is required for TWAP orders")
    ELSE IF ~TruthyField(params.o, "duration_in_seconds")
    THEN MethodThrew("createTWAPOrder", params, "duration_in_seconds is required for TWAP orders")
    ELSE SignedRequestSent("createTWAPOrder", params, "/orders/twap/create",
             "create_twap_order", mergeBuilderCode(builderCode, params), optAgent)

(* batchOrders: every action is signed by buildSignedRequest over its own  *)
(* data and sent as { type, data: { account, signature, timestamp,         *)
(* expiry_window, ...action.data } }                                       *)
BatchAction(action) ==
    LET operation == IF action.type = "Create" THEN "create_order" ELSE "cancel_order"
        acct == accountOf(accountPublicKey, privateKey)
        sr == buildSignedRequest(operation, action.data, privateKey, acct,
                                 Num(defaultExpiryWindow), now)
        fixed == <<Pair("account", Get(sr.request, "account")),
                   Pair("signature", Get(sr.request, "signature")),
                   Pair("timestamp", Get(sr.request, "timestamp")),
                   Pair("expiry_window", Get(sr.request, "expiry_window"))>>
    IN  [sent |-> Obj(<<Pair("type", Str(action.type)),
                        Pair("data", Obj(Spread(fixed, action.data.o)))>>),
         signed |-> sr.signed]

batchOrders(actions, optAgent) ==
    LET signedActions == [i \in DOMAIN actions |-> BatchAction(actions[i])]
    IN  [state |-> "sent", method |-> "batchOrders", params |-> actions,
         endpoint |-> "/orders/batch", url |-> UrlOf(baseUrl, "/orders/batch"),
         operation |-> "batch", payload |-> actions,
         body |-> <<Pair("actions", Arr([i \in DOMAIN actions |-> signedActions[i].sent]))>>,
         signed |-> [i \in DOMAIN actions |-> signedActions[i].signed],
         agent_wallet |-> IF optAgent # NoKey THEN optAgent ELSE agentWalletPublicKey,
         hardware |-> FALSE, at |-> now]

(* closePosition: a reduce-only market order on the ask side, with the     *)
(* amount only when a size is given                                        *)
closePosition(params, optAgent) ==
    LET closeOrderParams == <<Pair("symbol", Get(params.o, "market")),
                              Pair("side", Str("ask")),
                              Pair("reduce_only", Bool(TRUE)),
                              Pair("slippage_percent", Str("0.5"))>>
        withSize == IF TruthyField(params.o, "size")
                    THEN SetField(closeOrderParams, "amount", Get(params.o, "size"))
                    ELSE closeOrderParams
        made == createMarketOrder("closePosition", Obj(withSize), optAgent)
    IN  [made EXCEPT !.params = params]

(* Parameters callers pass to the order methods *)
LimitParams ==
    <<Pair("symbol", Str("BTC")), Pair("side", Str("bid")),
      Pair("amount", Str("0.1")), Pair("price", Str("50000"))>>
MarketParams ==
    <<Pair("symbol", Str("BTC")), Pair("side", Str("bid")), Pair("amount", Str("0.1")),
      Pair("slippage_percent", Str("0.5")), Pair("order_type", Str("market"))>>
OrderParams ==
    { Obj(LimitParams),
      Obj(SetField(LimitParams, "builder_code", Str("MINE"))),
      Obj(SetField(LimitParams, "price", Str("0"))),
      Obj(Without(LimitParams, "side")),
      Obj(MarketParams),
      Obj(SetField(MarketParams, "builder_code", Str("MINE"))),
      Obj(SetField(Without(MarketParams, "order_type"), "duration_in_seconds", Num(60))) }
BatchActions ==
    { <<[type |-> "Create", data |-> Obj(LimitParams)]>>,
      <<[type |-> "Create", data |-> Obj(SetField(LimitParams, "builder_code", Str("MINE")))],
        [type |-> "Cancel", data |-> Obj(<<Pair("symbol", Str("BTC")),
                                           Pair("order_id", Num(7))>>)]>> }
ClosePositionParams ==
    { Obj(<<Pair("market", Str("BTC"))>>),
      Obj(<<Pair("market", Str("BTC")), Pair("size", Str("0.1"))>>) }

OrderMethods == {"createLimitOrder", "createMarketOrder", "createStopOrder",
                 "createTWAPOrder"}

(* A caller calls one of the order-creating methods *)
CreateOrderCall(method, params, optAgent) ==
    /\ httpSent' = CASE method = "createLimitOrder" -> createLimitOrder(params, optAgent)
                     [] method = "createMarketOrder" ->
                            createMarketOrder("createMarketOrder", params, optAgent)
                     [] method = "createStopOrder" -> createStopOrder(params, optAgent)
                     [] method = "createTWAPOrder" -> createTWAPOrder(params, optAgent)
    /\ UNCHANGED <<privateKey, accountPublicKey, agentWalletPublicKey, builderCode,
                   defaultExpiryWindow, now, readyState, submitted, wsPending, wsSent>>
    /\ UNCHANGED outsideSign

BatchOrdersCall(actions, optAgent) ==
    /\ httpSent' = batchOrders(actions, optAgent)
    /\ UNCHANGED <<privateKey, accountPublicKey, agentWalletPublicKey, builderCode,
                   defaultExpiryWindow, now, readyState, submitted, wsPending, wsSent>>
    /\ UNCHANGED outsideSign

ClosePositionCall(params, optAgent) ==
    /\ httpSent' = closePosition(params, optAgent)
    /\ UNCHANGED <<privateKey, accountPublicKey, agentWalletPublicKey, builderCode,
                   defaultExpiryWindow, now, readyState, submitted, wsPending, wsSent>>
    /\ UNCHANGED outsideSign

(* A WebSocketClient constructed without a private key *)
NoPrivateKey == "none"

(* sendSignedOperation up to `await buildSignedRequest(...)`: the guards *)
sendSignedOperation ==
    /\ submitted # NoRequest
    /\ ~wsPending
    /\ IF privateKey = NoPrivateKey \/ readyState # 1
       THEN /\ wsSent' = [NothingSent EXCEPT !.state = "error", !.at = now]
            /\ UNCHANGED wsPending
       ELSE /\ wsPending' = TRUE
            /\ UNCHANGED wsSent
    /\ UNCHANGED <<privateKey, accountPublicKey, agentWalletPublicKey, builderCode,
                   defaultExpiryWindow, now, readyState, submitted, httpSent>>
    /\ UNCHANGED outsideSign

(* sendSignedOperation that gives up without an error when the socket is   *)
(* no longer open after the signing                                        *)
sendSignedOperationSends_Drops ==
    /\ wsPending
    /\ wsPending' = FALSE
    /\ UNCHANGED <<privateKey, accountPublicKey, agentWalletPublicKey, builderCode,
                   defaultExpiryWindow, now, readyState, submitted, httpSent, wsSent>>
    /\ UNCHANGED outsideSign

(* sendSignedOperation from the signing on: the frame and this.send *)
sendSignedOperationSends ==
    /\ wsPending
    /\ LET data == submitted.data
           agentWallet == IF submitted.agent_wallet # NoKey THEN submitted.agent_wallet
                          ELSE agentWalletPublicKey
           publicKey == IF agentWallet # NoKey THEN agentWallet ELSE accountPublicKey
           dataWithBuilder == mergeBuilderCode(builderCode, data)
           sr == buildSignedRequest(submitted.operation, dataWithBuilder, privateKey,
                                    publicKey, Undefined, now)
           message == Spread(<<Pair("type", Str("operation"))>>, sr.request)
           frame == IF agentWallet # NoKey
                    THEN SetField(message, "agent_wallet", KeyStr(agentWallet))
                    ELSE message
       IN  wsSent' = IF readyState # 1
                     THEN [NothingSent EXCEPT !.state = "error", !.at = now]
                     ELSE [state |-> "sent", hardware |-> FALSE,
                           payload |-> dataWithBuilder, body |-> frame,
                           agent_wallet |-> agentWallet, signed |-> sr.signed, at |-> now]
    /\ wsPending' = FALSE
    /\ UNCHANGED <<privateKey, accountPublicKey, agentWalletPublicKey, builderCode,
                   defaultExpiryWindow, now, readyState, submitted, httpSent>>
    /\ UNCHANGED outsideSign

(* The socket opens or closes *)
SocketOpens ==
    /\ readyState # 1
    /\ readyState' = 1
    /\ UNCHANGED <<privateKey, accountPublicKey, agentWalletPublicKey, builderCode,
                   defaultExpiryWindow, now, submitted, httpSent, wsPending, wsSent>>
    /\ UNCHANGED outsideSign

SocketCloses ==
    /\ readyState = 1
    /\ readyState' = 3
    /\ UNCHANGED <<privateKey, accountPublicKey, agentWalletPublicKey, builderCode,
                   defaultExpiryWindow, now, submitted, httpSent, wsPending, wsSent>>
    /\ UNCHANGED outsideSign

(* Time passes *)
Tick ==
    /\ now < MaxNow
    /\ now' = now + 1
    /\ UNCHANGED <<privateKey, accountPublicKey, agentWalletPublicKey, builderCode,
                   defaultExpiryWindow, readyState, submitted, httpSent, wsPending, wsSent>>
    /\ UNCHANGED outsideSign

(* The credentials a WebSocketClient is constructed with: none, or an      *)
(* account's private key with or without its public key                    *)
WsSignInit ==
    /\ \/ /\ privateKey = NoPrivateKey
          /\ accountPublicKey = NoKey
       \/ /\ privateKey = "K1"
          /\ accountPublicKey \in {NoKey, B58("K1")}
    /\ agentWalletPublicKey = NoKey
    /\ builderCode \in {"", "BUILDER"}
    /\ defaultExpiryWindow = DefaultExpiryWindow
    /\ now = 1
    /\ readyState = 3
    /\ submitted = NoRequest
    /\ httpSent = NothingSent
    /\ wsPending = FALSE
    /\ wsSent = NothingSent

(* The transport on its own: no request is being signed *)
SignIdle ==
    /\ privateKey = "K1"
    /\ accountPublicKey = NoKey
    /\ agentWalletPublicKey = NoKey
    /\ builderCode = ""
    /\ defaultExpiryWindow = DefaultExpiryWindow
    /\ now = 1
    /\ readyState = 3
    /\ submitted = NoRequest
    /\ httpSent = NothingSent
    /\ wsPending = FALSE
    /\ wsSent = NothingSent

(* The signer on its own: no get/post call is in progress *)
HttpIdleAt(given) ==
    /\ baseUrl = BaseClientUrl(given)
    /\ retryAttempts = 0
    /\ retryDelay \in RetryDelays /\ \A d \in RetryDelays : retryDelay >= d
    /\ caller = "none"
    /\ pc = "idle"
    /\ attempt = 0
    /\ lastStatus = 0
    /\ lastError = NoError
    /\ fetchCount = 0
    /\ log = <<>>
    /\ httpResult = Pending
    /\ callResult = Pending
HttpIdle == HttpIdleAt(NoBaseUrl)

-----------------------------------------------------------------------------
(* Byte arrays and key strings.  A byte array is a sequence of chunks, each *)
(* a number of bytes with an identity; a string is described by what the   *)
(* decoders of generateKeypair make of it.                                 *)

(* An Ed25519 private key, and a public key, is 32 bytes *)
KeyBytes == 32

Chunk(id, n) == [id |-> id, n |-> n]
NoBytes == <<>>

RECURSIVE ByteLen(_)
ByteLen(b) == IF b = <<>> THEN 0 ELSE b[1].n + ByteLen(Tail(b))

(* decoded.slice(0, n) *)
RECURSIVE Slice(_, _)
Slice(b, n) ==
    IF n = 0 \/ b = <<>> THEN <<>>
    ELSE IF b[1].n <= n THEN <<b[1]>> \o Slice(Tail(b), n - b[1].n)
    ELSE <<Chunk(<<"head", b[1].id>>, n)>>

(* ed25519.getPublicKey(privateKeyBytes) *)
getPublicKey(privateKeyBytes) == <<Chunk(<<"public", privateKeyBytes>>, KeyBytes)>>

(* A 32-byte secret, and the 64-byte secret+public form of a Solana keypair *)
Secret(id) == <<Chunk(id, KeyBytes)>>
SecretAndPublic(id) == Secret(id) \o getPublicKey(Secret(id))

(* Bytes that come out of decoding a text in an encoding it was not written in *)
Garbage(how, text, n) == IF n = 0 THEN <<>> ELSE <<Chunk(<<how, text>>, n)>>

(* Characters of the base-58 text of n bytes, bytes a base-58 text of c     *)
(* characters decodes to (no leading '1'), characters of padded base-64,   *)
(* bytes Buffer.from(text, 'base64') gives for c characters                *)
Base58Chars(n) == (n * 1366 + 999) \div 1000
Base58Bytes(c) == (c * 733 + 999) \div 1000
Base64Chars(n) == 4 * ((n + 2) \div 3)
Base64Bytes(c) == (c * 3) \div 4

(* 2 * n hexadecimal digits of the bytes b; zeroDigit tells whether the     *)
(* digit 0, which is not in the base-58 alphabet, occurs in it.            *)
HexText(b, zeroDigit) ==
    LET text == <<"hex", b, zeroDigit>>
        chars == 2 * ByteLen(b)
    IN  [type |-> "string", text |-> text, chars |-> chars, has0x |-> FALSE,
         validHex |-> TRUE, hex |-> b,
         base58 |-> ~zeroDigit, b58 |-> Garbage("bs58", text, Base58Bytes(chars)),
         validBase64 |-> FALSE, b64 |-> Garbage("base64", text, Base64Bytes(chars))]

(* '1'.repeat(64): 64 hexadecimal digits, and in base-58 sixty-four zero bytes *)
OnesText ==
    [HexText(Secret("0x11"), FALSE) EXCEPT
        !.b58 = <<Chunk("zero", KeyBytes), Chunk("zero", KeyBytes)>>]

(* '0x' + text: Buffer.from(.., 'hex') stops at the x; 0 is not base-58 *)
Prefix0x(t) ==
    LET text == <<"0x", t.text>>
    IN  [type |-> "string", text |-> text, chars |-> t.chars + 2, has0x |-> TRUE,
         rest |-> t, validHex |-> t.validHex, hex |-> NoBytes,
         base58 |-> FALSE, b58 |-> NoBytes,
         validBase64 |-> FALSE, b64 |-> Garbage("base64", text, Base64Bytes(t.chars + 2))]

(* bs58.encode(b) *)
Base58Text(b) ==
    LET text == <<"base58", b>>
        chars == Base58Chars(ByteLen(b))
    IN  [type |-> "string", text |-> text, chars |-> chars, has0x |-> FALSE,
         validHex |-> FALSE, hex |-> NoBytes,
         base58 |-> TRUE, b58 |-> b,
         validBase64 |-> FALSE, b64 |-> Garbage("base64", text, Base64Bytes(chars))]

(* Buffer.from(b).toString('base64'), padded with = *)
Base64Text(b) ==
    LET text == <<"base64", b>>
    IN  [type |-> "string", text |-> text, chars |-> Base64Chars(ByteLen(b)),
         has0x |-> FALSE, validHex |-> FALSE, hex |-> NoBytes,
         base58 |-> FALSE, b58 |-> NoBytes,
         validBase64 |-> TRUE, b64 |-> b]

(* The hexadecimal digits of b followed by as many characters that are not *)
(* hexadecimal digits: Buffer.from(.., 'hex') decodes up to the first.     *)
HexThenOther(b) ==
    LET text == <<"hex+other", b>>
        chars == 4 * ByteLen(b)
    IN  [type |-> "string", text |-> text, chars |-> chars, has0x |-> FALSE,
         validHex |-> FALSE, hex |-> b,
         base58 |-> FALSE, b58 |-> NoBytes,
         validBase64 |-> FALSE, b64 |-> Garbage("base64", text, Base64Bytes(chars))]

(* A Uint8Array *)
RawBytes(b) == [type |-> "bytes", bytes |-> b]

(* generateKeypair: what it returns, or the error it throws *)
KeypairOf(privateKeyBytes, branch) ==
    [state |-> "returned", privateKey |-> privateKeyBytes,
     publicKey |-> getPublicKey(privateKeyBytes), branch |-> branch]
KeyError(e) ==
    [state |-> "thrown", privateKey |-> NoBytes, publicKey |-> NoBytes, branch |-> e]
NoKeypair ==
    [state |-> "none", privateKey |-> NoBytes, publicKey |-> NoBytes, branch |-> "none"]

(* Length of a hexadecimal string the hex branch looks at *)
HexKeyChars == 128

generateKeypair(pk) ==
    IF pk.type = "string"
    THEN LET cleanKey == pk
             hexTried == \/ cleanKey.chars = HexKeyChars
                         \/ cleanKey.has0x /\ cleanKey.chars = HexKeyChars + 2
             cleanHex == IF cleanKey.has0x THEN cleanKey.rest ELSE cleanKey
             decoded == cleanKey.b58
             fromBase58 ==
                 IF ByteLen(decoded) = 2 * KeyBytes THEN Slice(decoded, KeyBytes)
                 ELSE IF ByteLen(decoded) = KeyBytes THEN decoded
                 ELSE IF ByteLen(decoded) > KeyBytes THEN Slice(decoded, KeyBytes)
                 ELSE NoBytes
         IN  IF hexTried /\ ByteLen(cleanHex.hex) = KeyBytes
             THEN KeypairOf(cleanHex.hex, "hex")
             ELSE IF cleanKey.base58 /\ ByteLen(fromBase58) = KeyBytes
             THEN KeypairOf(fromBase58, "base58")
             ELSE IF ByteLen(cleanKey.b64) = KeyBytes
             THEN KeypairOf(cleanKey.b64, "base64")
             ELSE KeyError("Invalid private key format")
    ELSE IF ByteLen(pk.bytes) # KeyBytes
         THEN KeyError("Invalid private key length")
         ELSE KeypairOf(pk.bytes, "bytes")

(* verifySignature(message, signature, publicKey): both strings are decoded *)
(* as hexadecimal; ed25519.verify throws on a signature or key of the      *)
(* wrong length, and the catch block turns that into false.                *)
verifySignature(msg, sig, publicKey) ==
    LET signatureBytes == IF sig.enc = "hex" THEN sig.len ELSE 0
        publicKeyBytes == IF publicKey.enc \in {"hex", "0xhex"} THEN KeyBytes ELSE 0
        throws == signatureBytes # SignatureBytes \/ publicKeyBytes # KeyBytes
    IN  IF throws THEN FALSE
        ELSE sig.msg = msg /\ getPublicKey(sig.signer) = publicKey.key

-----------------------------------------------------------------------------
(* Resolving a key, signing with it and verifying *)

(* Private keys a caller passes to generateKeypair *)
KeyInputs ==
    { HexText(Secret("S1"), TRUE), HexText(Secret("S1"), FALSE), OnesText,
      Prefix0x(HexText(Secret("S1"), TRUE)), Prefix0x(HexText(Secret("S1"), FALSE)),
      HexText(SecretAndPublic("S1"), TRUE), HexText(SecretAndPublic("S1"), FALSE),
      Prefix0x(HexText(SecretAndPublic("S1"), TRUE)),
      Base58Text(Secret("S1")), Base58Text(SecretAndPublic("S1")),
      Base58Text(<<Chunk("short", KeyBytes \div 2)>>),
      Base58Text(<<Chunk("long", KeyBytes + KeyBytes \div 2)>>),
      Base64Text(Secret("S1")), Base64Text(SecretAndPublic("S1")),
      Base64Text(<<Chunk("short", KeyBytes \div 2)>>),
      HexThenOther(Secret("S1")),
      RawBytes(Secret("S1")), RawBytes(SecretAndPublic("S1")),
      RawBytes(<<Chunk("short", KeyBytes - 1)>>) }

(* Messages to sign *)
Messages == {Stringify(Str("test message")), Stringify(Str("other message"))}

NoSignature == [msg |-> <<>>, signer |-> NoBytes, enc |-> "none", len |-> 0]
NotVerified == [state |-> "none", msg |-> <<>>, sig |-> NoSignature, result |-> FALSE]

(* Other signature strings a caller can hold instead of the one signMessage *)
(* returned: '0'.repeat(128), the signature with a byte altered, with a    *)
(* byte missing, and the same signature bytes written in hexadecimal.      *)
OtherSignature(kind, sig) ==
    CASE kind = "wrong"     -> [msg |-> <<>>, signer |-> NoBytes, enc |-> "hex",
                                len |-> SignatureBytes]
      [] kind = "altered"   -> [sig EXCEPT !.msg = <<"altered", sig.msg>>]
      [] kind = "truncated" -> [sig EXCEPT !.len = SignatureBytes - 1]
      [] kind = "hex"       -> [sig EXCEPT !.enc = "hex"]
SignatureKinds == {"wrong", "altered", "truncated", "hex"}

KeysInit ==
    /\ keyInput \in KeyInputs
    /\ keyResult = NoKeypair
    /\ signedText \in Messages
    /\ signatureText = NoSignature
    /\ verified = NotVerified

GenerateKeypair ==
    /\ keyResult = NoKeypair
    /\ keyResult' = generateKeypair(keyInput)
    /\ UNCHANGED <<keyInput, signedText, signatureText, verified>>
    /\ UNCHANGED outsideKeys

SignMessage ==
    /\ keyResult.state = "returned"
    /\ signatureText = NoSignature
    /\ signatureText' = signMessage(signedText, keyResult.privateKey)
    /\ UNCHANGED <<keyInput, keyResult, signedText, verified>>
    /\ UNCHANGED outsideKeys

SignatureReplaced(kind) ==
    /\ keyResult.state = "returned"
    /\ signatureText = signMessage(signedText, keyResult.privateKey)
    /\ signatureText' = OtherSignature(kind, signatureText)
    /\ UNCHANGED <<keyInput, keyResult, signedText, verified>>
    /\ UNCHANGED outsideKeys

VerifySignature(msg) ==
    /\ signatureText # NoSignature
    /\ verified' = [state |-> "done", msg |-> msg, sig |-> signatureText,
                    result |-> verifySignature(msg, signatureText,
                                               publicKeyToHex(keyResult.publicKey))]
    /\ UNCHANGED <<keyInput, keyResult, signedText, signatureText>>
    /\ UNCHANGED outsideKeys

-----------------------------------------------------------------------------
(* Canonicalizing values *)

(* No createCompactJson call has returned *)
NotCanonicalized == [state |-> "none", value |-> <<>>, other |-> <<>>, reparsed |-> <<>>]

(* An object literal: its properties are created in the order written *)
MakeObj(ps) == Obj(Spread(<<>>, ps))

(* JSON.parse of a text JSON.stringify produced *)
RECURSIVE ReadValue(_, _), ReadMembers(_, _, _), ReadElements(_, _, _)
ReadValue(t, i) ==
    IF t[i] = Punct("{")
    THEN (IF t[i + 1] = Punct("}") THEN [v |-> Obj(<<>>), next |-> i + 2]
          ELSE ReadMembers(t, i + 1, <<>>))
    ELSE IF t[i] = Punct("[")
    THEN (IF t[i + 1] = Punct("]") THEN [v |-> Arr(<<>>), next |-> i + 2]
          ELSE ReadElements(t, i + 1, <<>>))
    ELSE [v |-> t[i], next |-> i + 1]
ReadMembers(t, i, ps) ==
    LET member == ReadValue(t, i + 2)
        read == SetField(ps, t[i].key, member.v)
    IN  IF t[member.next] = Punct(",")
        THEN ReadMembers(t, member.next + 1, read)
        ELSE [v |-> Obj(read), next |-> member.next + 1]
ReadElements(t, i, es) ==
    LET element == ReadValue(t, i)
        read == Append(es, element.v)
    IN  IF t[element.next] = Punct(",")
        THEN ReadElements(t, element.next + 1, read)
        ELSE [v |-> Arr(read), next |-> element.next + 1]
JSONparse(t) == ReadValue(t, 1).v

(* Values a caller canonicalizes: the objects of the signer tests in every *)
(* insertion order, nested objects, arrays, integer-like keys, and fields  *)
(* and elements that are undefined or functions.                           *)
JsonInputs ==
    LET z == Pair("z", Num(1))
        a == Pair("a", Num(2))
        m == Pair("m", Num(3))
        inner1 == MakeObj(<<z, a>>)
        inner2 == MakeObj(<<a, z>>)
    IN  { MakeObj(<<z, a, m>>), MakeObj(<<z, m, a>>), MakeObj(<<a, z, m>>),
          MakeObj(<<a, m, z>>), MakeObj(<<m, a, z>>), MakeObj(<<m, z, a>>),
          MakeObj(<<Pair("a", Num(1)), Pair("b", Num(2))>>),
          MakeObj(<<Pair("b", Num(2)), Pair("a", Num(1))>>),
          MakeObj(<<Pair("z", inner1), Pair("a", Num(3))>>),
          MakeObj(<<Pair("a", Num(3)), Pair("z", inner2)>>),
          MakeObj(<<Pair("data", Arr(<<inner1, MakeObj(<<m>>)>>))>>),
          MakeObj(<<Pair("data", Arr(<<inner2, MakeObj(<<m>>)>>))>>),
          MakeObj(<<Pair("data", Arr(<<MakeObj(<<m>>), inner1>>))>>),
          MakeObj(<<Pair("10", Num(1)), Pair("9", Num(2))>>),
          MakeObj(<<Pair("a", Num(1)), Pair("10", Num(3)), Pair("9", Num(2))>>),
          MakeObj(<<Pair("9", Num(2)), Pair("a", Num(1)), Pair("10", Num(3))>>),
          MakeObj(<<Pair("symbol", Str("BTC"))>>),
          MakeObj(<<Pair("symbol", Str("BTC")), Pair("price", Undefined)>>),
          MakeObj(<<Pair("price", Undefined), Pair("symbol", Str("BTC"))>>),
          MakeObj(<<Pair("symbol", Str("BTC")), Pair("price", Function)>>),
          MakeObj(<<Pair("data", Arr(<<Num(1), Undefined>>))>>),
          MakeObj(<<Pair("data", Arr(<<Num(1), Null>>))>>) }

JsonInit ==
    /\ jsonValue \in JsonInputs
    /\ jsonOther \in JsonInputs
    /\ canonical = NotCanonicalized

(* createCompactJson(value); it has no path that throws *)
CreateCompactJson ==
    /\ canonical.state = "none"
    /\ canonical' = [canonical EXCEPT !.state = "returned",
                                      !.value = createCompactJson(jsonValue)]
    /\ UNCHANGED <<jsonValue, jsonOther>>
    /\ UNCHANGED outsideJson

(* createCompactJson(other) *)
CreateCompactJsonOfOther ==
    /\ canonical.state = "returned"
    /\ canonical.other = <<>>
    /\ canonical' = [canonical EXCEPT !.other = createCompactJson(jsonOther)]
    /\ UNCHANGED <<jsonValue, jsonOther>>
    /\ UNCHANGED outsideJson

(* createCompactJson(JSON.parse(text)) of the text it returned *)
CreateCompactJsonAgain ==
    /\ canonical.state = "returned"
    /\ canonical.reparsed = <<>>
    /\ canonical' = [canonical EXCEPT
                        !.reparsed = createCompactJson(JSONparse(canonical.value))]
    /\ UNCHANGED <<jsonValue, jsonOther>>
    /\ UNCHANGED outsideJson

(* No key is being resolved *)
KeysIdle ==
    /\ keyInput = RawBytes(NoBytes)
    /\ keyResult = NoKeypair
    /\ signedText = <<>>
    /\ signatureText = NoSignature
    /\ verified = NotVerified

(* Nothing is being canonicalized *)
JsonIdle ==
    /\ jsonValue = Null
    /\ jsonOther = Null
    /\ canonical = NotCanonicalized

-----------------------------------------------------------------------------
(* WebSocketClient *)

(* readyState of a socket *)
CONNECTING == 0
OPEN == 1
CLOSING == 2
CLOSED == 3

(* Defaults of the constructor and the cap of the reconnect delay *)
DefaultReconnectInterval == 5000
DefaultMaxReconnectAttempts == 10
MaxReconnectDelay == 60000

(* Configured reconnectInterval: not given (0), or 40 seconds *)
ReconnectIntervals == {0, 40000}

(* Configured maxReconnectAttempts: not given (0), or the bound *)
ReconnectLimits == {0, MaxReconnectAttempts}

(* this.config of the constructor: reconnect !== false, x || default *)
WebSocketConfigOf(given) ==
    [reconnect |-> given.reconnect,
     reconnectInterval |-> IF Truthy(given.reconnectInterval)
                           THEN given.reconnectInterval ELSE DefaultReconnectInterval,
     maxReconnectAttempts |-> IF Truthy(given.maxReconnectAttempts)
                              THEN given.maxReconnectAttempts
                              ELSE DefaultMaxReconnectAttempts]

Channels == {"A", "B"}

(* Set.prototype.add and delete on a Set kept in insertion order *)
Elements(set) == {set[i] : i \in DOMAIN set}
SetAdd_Front(set, x) == IF x \in Elements(set) THEN set ELSE <<x>> \o set
SetAdd(set, x) == IF x \in Elements(set) THEN set ELSE Append(set, x)
SetDelete(set, x) == SelectSeq(set, LAMBDA y : y # x)

(* new WS(url) made by a call of connect() that came from `by` (the user    *)
(* or a reconnect timer), and the socket after ws.close()                  *)
NewSocket(by) == [readyState |-> CONNECTING, aborted |-> FALSE, by |-> by]

(* resolve() and reject(error) in a socket's handler, as the state of the  *)
(* promise of the connect() that made the socket: a socket opens once and  *)
(* before any error, so resolve() settles the promise; reject(error)       *)
(* settles it unless the socket had opened.                                *)
Resolved == "resolved"
Rejected(socket) == IF socket.readyState = OPEN THEN "resolved" ELSE "rejected"
CloseSocket(socket) ==
    IF socket.readyState = CONNECTING
    THEN [socket EXCEPT !.readyState = CLOSING, !.aborted = TRUE]
    ELSE IF socket.readyState = OPEN THEN [socket EXCEPT !.readyState = CLOSING]
    ELSE socket

(* !this.ws || this.ws.readyState !== 1, negated *)
IsOpen(current, all) == current # 0 /\ all[current].readyState = OPEN

(* Frames *)
SubscribeFrame(channel) == [type |-> "subscribe", channel |-> channel]
UnsubscribeFrame(channel) == [type |-> "unsubscribe", channel |-> channel]

(* What one call or one event handler did: the frames it handed to          *)
(* this.ws.send and the events it emitted, in order                        *)
Op(name, socket, arg) ==
    [name |-> name, socket |-> socket, arg |-> arg, frames |-> <<>>, emitted |-> <<>>,
     invoked |-> <<>>, escaped |-> FALSE]
NoOp == Op("none", 0, "")

(* Event names handlers are registered for, and the handlers: one that     *)
(* returns and one that throws                                             *)
HandledEvents == {"message", "trade"}
Handlers == {"returns", "throws"}
Throws(handler) == handler = "throws"

(* A handler of the 'open' event that subscribes to a channel, as          *)
(* wsClient.on('open', () => { wsClient.subscribeToPrices(); ... }) does   *)
OpenHandlers == {"subscribes"}
HandlerChannel == "A"

NoHandlers == [e \in HandledEvents \cup {"open"} |-> <<>>]
HandlersOf(event) == IF event \in DOMAIN eventHandlers THEN eventHandlers[event] ELSE <<>>

(* handlers.forEach without the try/catch: the first handler that throws   *)
(* ends the loop and its exception leaves emit                             *)
RECURSIVE InvokeUnprotected(_, _, _, _)
InvokeUnprotected(op, event, handlers, i) ==
    IF i > Len(handlers) THEN op
    ELSE LET called == [op EXCEPT !.invoked = Append(@, <<event, handlers[i]>>)]
         IN  IF Throws(handlers[i]) THEN [called EXCEPT !.escaped = TRUE]
             ELSE InvokeUnprotected(called, event, handlers, i + 1)

(* handlers.forEach((handler) => { try { handler(data) } catch { log } }) *)
RECURSIVE Invoke(_, _, _, _)
Invoke(op, event, handlers, i) ==
    IF i > Len(handlers) THEN op
    ELSE LET called == [op EXCEPT !.invoked = Append(@, <<event, handlers[i]>>)]
         IN  Invoke(called, event, handlers, i + 1)

(* emit(event, data); an exception that left an earlier emit of the same   *)
(* call or handler has ended that call                                     *)
Emit(op, event) ==
    IF op.escaped THEN op
    ELSE Invoke([op EXCEPT !.emitted = Append(@, event)], event[1],
                HandlersOf(event[1]), 1)
Send(op, frame) == [op EXCEPT !.frames = Append(@, frame)]

subscribe_SendsNothing(subs, op, open, channel) ==
    [subscriptions |-> SetAdd(subs, channel), op |-> op]

(* subscribe(channel): the subscription set and the record of the call *)
subscribe(subs, op, open, channel) ==
    IF ~open
    THEN [subscriptions |-> SetAdd(subs, channel), op |-> op]
    ELSE [subscriptions |-> SetAdd(subs, channel),
          op |-> Emit(Send(op, SubscribeFrame(channel)), <<"subscription", channel>>)]

(* unsubscribe(channel) *)
unsubscribe(subs, op, open, channel) ==
    IF ~open
    THEN [subscriptions |-> SetDelete(subs, channel), op |-> op]
    ELSE [subscriptions |-> SetDelete(subs, channel),
          op |-> Send(op, UnsubscribeFrame(channel))]

(* Accounts whose TWAP orders are subscribed to *)
Accounts == {"ACC"}

(* `twap_orders:${account}` and `twap_order_updates:${account}` *)
TwapOrdersChannel(account) == "twap_orders:" \o account
TwapOrderUpdatesChannel(account) == "twap_order_updates:" \o account

(* { method: 'subscribe', params: { source, account } } *)
TwapSubscribeFrame(source, account) ==
    [method |-> "subscribe", params |-> [source |-> source, account |-> account]]

(* subscribeToTWAPOrders(account) and subscribeToTWAPOrderUpdates(account), *)
(* which differ in the source and the channel name                         *)
subscribeToTWAP(subs, op, open, source, channel, account) ==
    IF ~open
    THEN [subscriptions |-> SetAdd(subs, channel), op |-> op]
    ELSE [subscriptions |-> SetAdd(subs, channel),
          op |-> Emit(Send(op, TwapSubscribeFrame(source, account)),
                      <<"subscription", channel>>)]
subscribeToTWAPOrders(subs, op, open, account) ==
    subscribeToTWAP(subs, op, open, "account_twap_orders",
                    TwapOrdersChannel(account), account)
subscribeToTWAPOrderUpdates(subs, op, open, account) ==
    subscribeToTWAP(subs, op, open, "account_twap_order_updates",
                    TwapOrderUpdatesChannel(account), account)

(* this.subscriptions.forEach((channel) => this.subscribe(channel)), from   *)
(* the i-th element on                                                     *)
Resubscribe_Forgets(subs, op, open, i) == [subscriptions |-> <<>>, op |-> op]

RECURSIVE Resubscribe(_, _, _, _)
Resubscribe(subs, op, open, i) ==
    IF i > Len(subs) THEN [subscriptions |-> subs, op |-> op]
    ELSE LET done == subscribe(subs, op, open, subs[i])
         IN  Resubscribe(done.subscriptions, done.op, open, i + 1)

(* What the handlers of the 'open' event do when emit('open') calls them:   *)
(* one that subscribes calls subscribe(channel) on the client              *)
RECURSIVE OpenHandlerCalls(_, _, _, _, _)
OpenHandlerCalls(subs, op, open, handlers, i) ==
    IF i > Len(handlers) THEN [subscriptions |-> subs, op |-> op]
    ELSE IF handlers[i] \in OpenHandlers
    THEN LET done == subscribe(subs, op, open, HandlerChannel)
         IN  OpenHandlerCalls(done.subscriptions, done.op, open, handlers, i + 1)
    ELSE OpenHandlerCalls(subs, op, open, handlers, i + 1)

(* Inbound data: text that is not JSON, the JSON text null, and objects     *)
(* with a type and a source field ("none" models an absent field)          *)
MessageTypes == {"order_update", "trade", "ticker", "orderbook",
                 "account_twap_orders", "account_twap_order_updates", "pong", "none"}
MessageSources == {"none", "account_twap_orders"}
Inbound ==
    {[kind |-> "garbage", type |-> "none", source |-> "none"],
     [kind |-> "null", type |-> "none", source |-> "none"]}
    \cup {[kind |-> "object", type |-> t, source |-> src] :
             t \in MessageTypes, src \in MessageSources}

(* message.data, and message.data || message, as event payloads *)
DataOf(message) == [data |-> message]
DataOrMessage(message) == [dataOrMessage |-> message]

handleMessage_GenericOnly(op, message) == Emit(op, <<"message", message>>)

(* handleMessage(message) *)
handleMessage(op, message) ==
    LET generic == Emit(op, <<"message", message>>)
    IN  IF message.type = "order_update" THEN Emit(generic, <<"order_update", DataOf(message)>>)
        ELSE IF message.type = "trade" THEN Emit(generic, <<"trade", DataOf(message)>>)
        ELSE IF message.type = "ticker" THEN Emit(generic, <<"ticker", DataOf(message)>>)
        ELSE IF message.type = "orderbook" THEN Emit(generic, <<"orderbook", DataOf(message)>>)
        ELSE IF message.type = "account_twap_orders"
                \/ message.source = "account_twap_orders"
        THEN Emit(generic, <<"twap_order", DataOrMessage(message)>>)
        ELSE IF message.type = "account_twap_order_updates"
                \/ message.source = "account_twap_order_updates"
        THEN Emit(generic, <<"twap_order_update", DataOrMessage(message)>>)
        ELSE generic

(* The 'message' handler of the socket: JSON.parse, handleMessage, and     *)
(* emit('error') for whatever the two throw.  null parses, is emitted as   *)
(* a message, and reading its type throws.                                 *)
onMessage(op, data) ==
    IF data.kind = "garbage" THEN Emit(op, <<"error">>)
    ELSE IF data.kind = "null" THEN Emit(Emit(op, <<"message", data>>), <<"error">>)
    ELSE handleMessage(op, data)

ReconnectDelay_Uncapped(interval, attempts) == interval * Pow2(attempts - 1)

(* handleReconnect: the delay of the timer it sets *)
ReconnectDelay(interval, attempts) ==
    LET delay == interval * Pow2(attempts - 1)
    IN  IF delay < MaxReconnectDelay THEN delay ELSE MaxReconnectDelay

(* handleReconnect(): the count, the events emitted and the timer set *)
NoTimer == [delay |-> 0, attempt |-> 0, pending |-> FALSE]

handleReconnect_IgnoresSwitch(cfg, attempts, op) ==
    [reconnectAttempts |-> attempts + 1,
     op |-> Emit(op, <<"reconnect", attempts + 1>>),
     timer |-> [delay |-> ReconnectDelay(cfg.reconnectInterval, attempts + 1),
                attempt |-> attempts + 1, pending |-> TRUE]]

handleReconnect_Unbounded(cfg, attempts, op) ==
    IF ~cfg.reconnect
    THEN [reconnectAttempts |-> attempts, op |-> op, timer |-> NoTimer]
    ELSE handleReconnect_IgnoresSwitch(cfg, attempts, op)

handleReconnect(cfg, attempts, op) ==
    IF ~cfg.reconnect
    THEN [reconnectAttempts |-> attempts, op |-> op, timer |-> NoTimer]
    ELSE IF attempts >= cfg.maxReconnectAttempts
    THEN [reconnectAttempts |-> attempts, op |-> Emit(op, <<"error">>), timer |-> NoTimer]
    ELSE [reconnectAttempts |-> attempts + 1,
          op |-> Emit(op, <<"reconnect", attempts + 1>>),
          timer |-> [delay |-> ReconnectDelay(cfg.reconnectInterval, attempts + 1),
                     attempt |-> attempts + 1, pending |-> TRUE]]

(* The state after new WebSocketClient(given) *)
WsInitOf(given) ==
    /\ config = WebSocketConfigOf(given)
    /\ ws = 0
    /\ sockets = <<>>
    /\ isConnecting = FALSE
    /\ reconnectAttempts = 0
    /\ reconnectTimer = 0
    /\ timers = <<>>
    /\ subscriptions = <<>>
    /\ eventHandlers = NoHandlers
    /\ lastOp = NoOp

WsInit ==
    \E r \in BOOLEAN, i \in ReconnectIntervals, m \in ReconnectLimits :
        WsInitOf([reconnect |-> r, reconnectInterval |-> i, maxReconnectAttempts |-> m])

(* connect(), called by the user or by a reconnect timer: the part that    *)
(* runs at once.  It creates a socket unless one is open or being opened;  *)
(* op.arg is the state of the promise it returns: an early return of the   *)
(* async function is a resolved promise, a new socket brings a pending one *)
(* that the socket's open and error handlers settle.                       *)
connect(op) ==
    IF IsOpen(ws, sockets) \/ isConnecting
    THEN /\ lastOp' = [op EXCEPT !.arg = "resolved"]
         /\ UNCHANGED <<ws, sockets, isConnecting>>
    ELSE /\ isConnecting' = TRUE
         /\ sockets' = Append(sockets, NewSocket(op.name))
         /\ ws' = Len(sockets) + 1
         /\ lastOp' = [op EXCEPT !.arg = "pending"]

Connect ==
    /\ Len(sockets) < MaxSockets
    /\ connect(Op("connect", ws, ""))
    /\ UNCHANGED <<config, eventHandlers, reconnectAttempts, reconnectTimer, timers, subscriptions>>
    /\ UNCHANGED outsideWs

(* The callback of a reconnect timer: this.connect().catch(...) *)
TimerFires(t) ==
    /\ t \in DOMAIN timers
    /\ timers[t].pending
    /\ Len(sockets) < MaxSockets
    /\ timers' = [timers EXCEPT ![t].pending = FALSE]
    /\ connect(Op("timer", ws, ""))
    /\ UNCHANGED <<config, eventHandlers, reconnectAttempts, reconnectTimer, subscriptions>>
    /\ UNCHANGED outsideWs

(* disconnect() *)
Disconnect ==
    /\ timers' = IF reconnectTimer # 0
                 THEN [timers EXCEPT ![reconnectTimer].pending = FALSE]
                 ELSE timers
    /\ reconnectTimer' = 0
    /\ sockets' = IF ws # 0 THEN [sockets EXCEPT ![ws] = CloseSocket(@)] ELSE sockets
    /\ ws' = 0
    /\ subscriptions' = <<>>
    /\ lastOp' = Op("disconnect", ws, "")
    /\ UNCHANGED <<config, eventHandlers, isConnecting, reconnectAttempts>>
    /\ UNCHANGED outsideWs

Subscribe(channel) ==
    /\ LET done == subscribe(subscriptions, Op("subscribe", ws, channel),
                             IsOpen(ws, sockets), channel)
       IN  /\ subscriptions' = done.subscriptions
           /\ lastOp' = done.op
    /\ UNCHANGED <<config, eventHandlers, ws, sockets, isConnecting, reconnectAttempts,
                   reconnectTimer, timers>>
    /\ UNCHANGED outsideWs

Unsubscribe(channel) ==
    /\ LET done == unsubscribe(subscriptions, Op("unsubscribe", ws, channel),
                               IsOpen(ws, sockets), channel)
       IN  /\ subscriptions' = done.subscriptions
           /\ lastOp' = done.op
    /\ UNCHANGED <<config, eventHandlers, ws, sockets, isConnecting, reconnectAttempts,
                   reconnectTimer, timers>>
    /\ UNCHANGED outsideWs

SubscribeToTWAPOrders(account) ==
    /\ LET done == subscribeToTWAPOrders(subscriptions,
                                          Op("subscribeToTWAPOrders", ws, account),
                                          IsOpen(ws, sockets), account)
       IN  /\ subscriptions' = done.subscriptions
           /\ lastOp' = done.op
    /\ UNCHANGED <<config, eventHandlers, ws, sockets, isConnecting, reconnectAttempts,
                   reconnectTimer, timers>>
    /\ UNCHANGED outsideWs

SubscribeToTWAPOrderUpdates(account) ==
    /\ LET done == subscribeToTWAPOrderUpdates(subscriptions,
                        Op("subscribeToTWAPOrderUpdates", ws, account),
                        IsOpen(ws, sockets), account)
       IN  /\ subscriptions' = done.subscriptions
           /\ lastOp' = done.op
    /\ UNCHANGED <<config, eventHandlers, ws, sockets, isConnecting, reconnectAttempts,
                   reconnectTimer, timers>>
    /\ UNCHANGED outsideWs

(* The 'open' event of socket s and its handler *)
SocketOpen(s) ==
    /\ s \in DOMAIN sockets
    /\ sockets[s].readyState = CONNECTING
    /\ sockets' = [sockets EXCEPT ![s].readyState = OPEN]
    /\ isConnecting' = FALSE
    /\ reconnectAttempts' = 0
    /\ LET handled == OpenHandlerCalls(subscriptions,
                                       Emit(Op("open", s, Resolved), <<"open">>),
                                       IsOpen(ws, sockets'), HandlersOf("open"), 1)
           done == Resubscribe(handled.subscriptions, handled.op,
                               IsOpen(ws, sockets'), 1)
       IN  /\ subscriptions' = done.subscriptions
           /\ lastOp' = done.op
    /\ UNCHANGED <<config, eventHandlers, ws, reconnectTimer, timers>>
    /\ UNCHANGED outsideWs

(* The 'error' event of socket s and its handler; the socket then closes.  *)
(* A socket closed while connecting reports that as an error too.          *)
SocketError(s) ==
    /\ s \in DOMAIN sockets
    /\ \/ sockets[s].readyState \in {CONNECTING, OPEN}
       \/ sockets[s].readyState = CLOSING /\ sockets[s].aborted
    /\ sockets' = [sockets EXCEPT ![s].readyState = CLOSING, ![s].aborted = FALSE]
    /\ isConnecting' = FALSE
    /\ lastOp' = Emit(Op("error", s, Rejected(sockets[s])), <<"error">>)
    /\ UNCHANGED <<config, eventHandlers, ws, reconnectAttempts, reconnectTimer, timers, subscriptions>>
    /\ UNCHANGED outsideWs

(* The 'close' event of socket s and its handler, with handleReconnect *)
SocketClose(s) ==
    /\ s \in DOMAIN sockets
    /\ sockets[s].readyState \in {OPEN, CLOSING}
    /\ sockets' = [sockets EXCEPT ![s].readyState = CLOSED, ![s].aborted = FALSE]
    /\ isConnecting' = FALSE
    /\ LET done == handleReconnect(config, reconnectAttempts,
                                   Emit(Op("close", s, ""), <<"close">>))
       IN  /\ lastOp' = done.op
           /\ reconnectAttempts' = done.reconnectAttempts
           /\ IF done.timer = NoTimer
              THEN UNCHANGED <<reconnectTimer, timers>>
              ELSE /\ timers' = Append(timers, done.timer)
                   /\ reconnectTimer' = Len(timers) + 1
    /\ UNCHANGED <<config, eventHandlers, ws, subscriptions>>
    /\ UNCHANGED outsideWs

(* on(event, handler) and off(event, handler) *)
On(event, handler) ==
    /\ eventHandlers' = [eventHandlers EXCEPT ![event] = SetAdd(@, handler)]
    /\ lastOp' = Op("on", ws, event)
    /\ UNCHANGED <<config, ws, sockets, isConnecting, reconnectAttempts, reconnectTimer,
                   timers, subscriptions>>
    /\ UNCHANGED outsideWs

Off(event, handler) ==
    /\ eventHandlers' = [eventHandlers EXCEPT ![event] = SetDelete(@, handler)]
    /\ lastOp' = Op("off", ws, event)
    /\ UNCHANGED <<config, ws, sockets, isConnecting, reconnectAttempts, reconnectTimer,
                   timers, subscriptions>>
    /\ UNCHANGED outsideWs

(* The 'message' event of socket s and its handler *)
SocketMessage(s, data) ==
    /\ s \in DOMAIN sockets
    /\ sockets[s].readyState = OPEN
    /\ lastOp' = onMessage(Op("message", s, data), data)
    /\ UNCHANGED <<config, eventHandlers, ws, sockets, isConnecting, reconnectAttempts,
                   reconnectTimer, timers, subscriptions>>
    /\ UNCHANGED outsideWs

(* No streaming client is in use *)
NoOptions == [reconnect |-> TRUE, reconnectInterval |-> 0, maxReconnectAttempts |-> 0]

WsIdle ==
    /\ config = WebSocketConfigOf(NoOptions)
    /\ ws = 0
    /\ sockets = <<>>
    /\ isConnecting = FALSE
    /\ reconnectAttempts = 0
    /\ reconnectTimer = 0
    /\ timers = <<>>
    /\ subscriptions = <<>>
    /\ eventHandlers = NoHandlers
    /\ lastOp = NoOp

Init == HttpInit /\ SignIdle /\ KeysIdle /\ JsonIdle /\ WsIdle
Next ==
    \/ \E m \in Methods : Call(m)
    \/ Backoff
    \/ \E o \in Outcomes : Fetch(o)
    \/ RateLimitSleep
    \/ MethodSettles
Spec == Init /\ [][Next]_vars

InitSign == SignInit /\ HttpIdle /\ KeysIdle /\ JsonIdle /\ WsIdle
NextSign ==
    \/ \E op \in Operations, d \in Payloads, a \in AgentOptions : CallerPrepares(op, d, a)
    \/ \E hw \in BOOLEAN : makeSignedRequest(hw)
    \/ sendSignedOperation
    \/ sendSignedOperationSends
    \/ SocketOpens
    \/ SocketCloses
    \/ Tick
SpecSign == InitSign /\ [][NextSign]_vars

(* Signed operations on the streaming transport alone *)
InitWsSigned == WsSignInit /\ HttpIdle /\ KeysIdle /\ JsonIdle /\ WsIdle
NextWsSigned ==
    \/ \E op \in Operations, d \in Payloads, a \in AgentOptions : CallerPrepares(op, d, a)
    \/ sendSignedOperation
    \/ sendSignedOperationSends
    \/ SocketOpens
    \/ SocketCloses
    \/ Tick
SpecWsSigned == InitWsSigned /\ [][NextWsSigned]_vars

(* The order methods of a SignClient, called one after another *)
NextOrders ==
    \/ \E method \in OrderMethods, params \in OrderParams, a \in AgentOptions :
           CreateOrderCall(method, params, a)
    \/ \E actions \in BatchActions, a \in AgentOptions : BatchOrdersCall(actions, a)
    \/ \E params \in ClosePositionParams, a \in AgentOptions : ClosePositionCall(params, a)
    \/ Tick
SpecOrders == InitSign /\ [][NextOrders]_vars

(* The order methods of a SignClient constructed with a base URL *)
InitUrls ==
    /\ SignInit
    /\ \E given \in GivenBaseUrls : HttpIdleAt(given)
    /\ KeysIdle /\ JsonIdle /\ WsIdle
SpecUrls == InitUrls /\ [][NextOrders]_vars

InitKeys == KeysInit /\ HttpIdle /\ SignIdle /\ JsonIdle /\ WsIdle
NextKeys ==
    \/ GenerateKeypair
    \/ SignMessage
    \/ \E kind \in SignatureKinds : SignatureReplaced(kind)
    \/ \E msg \in Messages : VerifySignature(msg)
SpecKeys == InitKeys /\ [][NextKeys]_vars

InitJson == JsonInit /\ HttpIdle /\ SignIdle /\ KeysIdle /\ WsIdle
NextJson ==
    \/ CreateCompactJson
    \/ CreateCompactJsonOfOther
    \/ CreateCompactJsonAgain
SpecJson == InitJson /\ [][NextJson]_vars

InitWs == WsInit /\ HttpIdle /\ SignIdle /\ KeysIdle /\ JsonIdle
NextWs ==
    \/ Connect
    \/ Disconnect
    \/ \E channel \in Channels : Subscribe(channel)
    \/ \E channel \in Channels : Unsubscribe(channel)
    \/ \E s \in 1..MaxSockets : SocketOpen(s)
    \/ \E s \in 1..MaxSockets : SocketError(s)
    \/ \E s \in 1..MaxSockets : SocketClose(s)
    \/ \E t \in 1..MaxSockets : TimerFires(t)
SpecWs == InitWs /\ [][NextWs]_vars

(* The connection life cycle alone.  After an error, and after a close    *)
(* handshake, a socket emits 'close'.                                      *)
NextWsConnection ==
    \/ Connect
    \/ Disconnect
    \/ \E s \in 1..MaxSockets : SocketOpen(s)
    \/ \E s \in 1..MaxSockets : SocketError(s)
    \/ \E s \in 1..MaxSockets : SocketClose(s)
    \/ \E t \in 1..MaxSockets : TimerFires(t)
SpecWsFair ==
    /\ InitWs
    /\ [][NextWsConnection]_vars
    /\ \A s \in 1..MaxSockets : WF_vars(SocketClose(s))

(* The streaming client made without options, with event handlers and     *)
(* inbound data                                                            *)
InitWsDispatch == WsInitOf(NoOptions) /\ HttpIdle /\ SignIdle /\ KeysIdle /\ JsonIdle
NextWsDispatch ==
    \/ Connect
    \/ \E event \in HandledEvents, handler \in Handlers : On(event, handler)
    \/ \E event \in HandledEvents, handler \in Handlers : Off(event, handler)
    \/ \E s \in 1..MaxSockets : SocketOpen(s)
    \/ \E s \in 1..MaxSockets, data \in Inbound : SocketMessage(s, data)
    \/ \E s \in 1..MaxSockets : SocketError(s)
    \/ \E s \in 1..MaxSockets : SocketClose(s)
    \/ \E t \in 1..MaxSockets : TimerFires(t)
SpecWsDispatch == InitWsDispatch /\ [][NextWsDispatch]_vars

(* The streaming client made without options, with a handler of the 'open'  *)
(* event that subscribes                                                   *)
NextWsOpenHandler ==
    \/ \E handler \in OpenHandlers : On("open", handler)
    \/ \E handler \in OpenHandlers : Off("open", handler)
    \/ Connect
    \/ Disconnect
    \/ \E channel \in Channels : Subscribe(channel)
    \/ \E s \in 1..MaxSockets : SocketOpen(s)
    \/ \E s \in 1..MaxSockets : SocketError(s)
    \/ \E s \in 1..MaxSockets : SocketClose(s)
    \/ \E t \in 1..MaxSockets : TimerFires(t)
SpecWsOpenHandler == InitWsDispatch /\ [][NextWsOpenHandler]_vars

(* The streaming client made without options, with TWAP subscriptions *)
NextWsTwap ==
    \/ Connect
    \/ Disconnect
    \/ \E account \in Accounts : SubscribeToTWAPOrders(account)
    \/ \E account \in Accounts : SubscribeToTWAPOrderUpdates(account)
    \/ \E s \in 1..MaxSockets : SocketOpen(s)
    \/ \E s \in 1..MaxSockets : SocketError(s)
    \/ \E s \in 1..MaxSockets : SocketClose(s)
    \/ \E t \in 1..MaxSockets : TimerFires(t)
SpecWsTwap == InitWsDispatch /\ [][NextWsTwap]_vars

-----------------------------------------------------------------------------
(* Reading the history of a call *)

Settled == pc \in {"settled", "done"}

FetchIdx == {i \in 1..Len(log) : log[i].ev = "fetch"}

HasNextFetch(i) == \E j \in FetchIdx : j > i

NextFetch(i) == CHOOSE j \in FetchIdx : j > i /\ \A l \in FetchIdx : l > i => j <= l

RECURSIVE SleptBetween(_, _)
SleptBetween(i, j) ==
    IF i + 1 >= j THEN 0
    ELSE (IF log[i + 1].ev = "sleep" THEN log[i + 1].ms ELSE 0) + SleptBetween(i + 1, j)

SleepsBetween(i, j) == {l \in (i + 1)..(j - 1) : log[l].ev = "sleep"}

IsNetworkFailure(o) == o.kind = "network"
IsTimeout(o)        == o.kind = "abort"
Is5xx(o)            == o.kind = "response" /\ o.status >= 500 /\ o.status <= 599
Is429(o)            == o.kind = "response" /\ o.status = 429
IsFatal4xx(o)       == o.kind = "response" /\ o.status >= 400 /\ o.status <= 499
                         /\ o.status # 429
Is2xxParsed(o)      == o.kind = "response" /\ o.status >= 200 /\ o.status <= 299 /\ o.bodyOk
RetryableOutcome(o) == IsNetworkFailure(o) \/ IsTimeout(o) \/ Is5xx(o) \/ Is429(o)

AllAttemptsFailRetryably == \A i \in FetchIdx : RetryableOutcome(log[i].outcome)

LastFetch == CHOOSE i \in FetchIdx : \A l \in FetchIdx : l <= i

-----------------------------------------------------------------------------
(* C1: with retryAttempts = N, a call whose every attempt fails with a     *)
(* retryable outcome issues exactly N+1 fetch attempts and then throws;    *)
(* an (N+2)-th attempt is never issued.                                    *)
C1_RetryBound ==
    /\ fetchCount <= retryAttempts + 1
    /\ (Settled /\ AllAttemptsFailRetryably) =>
          (fetchCount = retryAttempts + 1 /\ httpResult.state = "thrown")

C1_Witness ==
    /\ pc = "done" /\ AllAttemptsFailRetryably
    /\ retryAttempts >= 1 /\ fetchCount = retryAttempts + 1
    /\ httpResult.state = "thrown"

(* C2: a 4xx response other than 429 is fatal: the call throws APIError    *)
(* with that status and issues no further attempt (exactly one attempt     *)
(* when it answers the first); a 5xx or 429 response on attempt            *)
(* k < retryAttempts is followed by a further attempt.                     *)
C2_FatalVsRetryable ==
    \A i \in FetchIdx :
        LET o == log[i].outcome
            k == log[i].attempt
        IN  /\ IsFatal4xx(o) =>
                 /\ i = Len(log)
                 /\ Settled
                 /\ httpResult = Thrown(APIError(o.status))
                 /\ (k = 0 => fetchCount = 1)
            /\ ((Is5xx(o) \/ Is429(o)) /\ k < retryAttempts) =>
                 \/ HasNextFetch(i) /\ log[NextFetch(i)].attempt = k + 1
                 \/ ~HasNextFetch(i) /\ pc \in {"rateLimitSleep", "backoff", "fetch"}

C2_Witness ==
    /\ pc = "done" /\ retryAttempts >= 1 /\ fetchCount = 2
    /\ Is5xx(log[1].outcome)
    /\ IsFatal4xx(log[LastFetch].outcome)

C4_LastErrorTyped ==
    (Settled /\ httpResult.state = "thrown" /\ fetchCount = retryAttempts + 1) =>
        LET o == log[LastFetch].outcome
        IN  /\ IsNetworkFailure(o) => httpResult.error = NetworkError
            /\ IsTimeout(o) => httpResult.error = TimeoutError
            /\ Is429(o) => httpResult.error.type = "RateLimitError"
            /\ (o.kind = "response" /\ o.status >= 300 /\ ~Is429(o)) =>
                  httpResult.error = APIError(o.status)

(* The server's Retry-After hint in milliseconds, for the header values    *)
(* that give a number of seconds.                                          *)
HintMs(h) ==
    CASE h = "0"   -> 0
      [] h = "2"   -> 2000
      [] h = "0.1" -> 100
      [] OTHER     -> NaN

(* C5: after a 429 on attempt k < retryAttempts, the delay slept before    *)
(* the next attempt is the Retry-After hint in milliseconds when the       *)
(* header is present, and retryDelay * 2^k otherwise.                      *)
C5_RateLimitDelay ==
    \A i \in FetchIdx :
        (Is429(log[i].outcome) /\ log[i].attempt < retryAttempts /\ HasNextFetch(i)) =>
            LET h == log[i].outcome.retryAfter
                slept == SleptBetween(i, NextFetch(i))
            IN  /\ h = "absent" => slept = retryDelay * Pow2(log[i].attempt)
                /\ (h # "absent" /\ HintMs(h) # NaN) => slept = HintMs(h)

(* C6: when attempt k-1 fails with a network error, a 5xx response or a    *)
(* timeout, exactly retryDelay * 2^(k-1) is slept before attempt k; every  *)
(* retry waits twice the previous one, and no attempt after the first is   *)
(* issued without that sleep.                                              *)
C6_BackoffDoubles ==
    \A j \in FetchIdx :
        log[j].attempt >= 1 =>
            LET k == log[j].attempt
            IN  /\ j > 1
                /\ log[j - 1].ev = "sleep"
                /\ log[j - 1].ms = retryDelay * Pow2(k - 1)
                /\ \A i \in FetchIdx :
                      (log[i].attempt = k - 1
                         /\ (IsNetworkFailure(log[i].outcome) \/ Is5xx(log[i].outcome)
                               \/ IsTimeout(log[i].outcome))) =>
                          /\ i = j - 2
                          /\ SleptBetween(i, j) = retryDelay * Pow2(k - 1)
                          /\ (k >= 2 => log[j - 1].ms = 2 * log[i - 1].ms)

C6_Witness ==
    /\ fetchCount = 3
    /\ \A i \in FetchIdx : i < LastFetch =>
          (IsNetworkFailure(log[i].outcome) \/ Is5xx(log[i].outcome)
             \/ IsTimeout(log[i].outcome))
    /\ log[LastFetch - 1].ms = 2 * retryDelay

(* C7: an attempt aborted by the timeout is retried while attempts remain, *)
(* and the call fails with TimeoutError only when a timeout occurs on the  *)
(* last attempt of the budget.                                             *)
C7_TimeoutRetried ==
    /\ \A i \in FetchIdx :
          (IsTimeout(log[i].outcome) /\ log[i].attempt < retryAttempts) =>
             \/ HasNextFetch(i) /\ log[NextFetch(i)].attempt = log[i].attempt + 1
             \/ ~HasNextFetch(i) /\ pc \in {"backoff", "fetch"}
    /\ httpResult.error.type = "TimeoutError" =>
          /\ IsTimeout(log[LastFetch].outcome)
          /\ log[LastFetch].attempt = retryAttempts
    /\ (Settled /\ FetchIdx # {} /\ IsTimeout(log[LastFetch].outcome)) =>
          httpResult = Thrown(TimeoutError)

C7_Witness ==
    /\ pc = "done" /\ retryAttempts >= 1 /\ fetchCount = retryAttempts + 1
    /\ IsTimeout(log[1].outcome)
    /\ httpResult = Thrown(TimeoutError)

(* C8: once get/post has thrown a typed error, every public client method  *)
(* propagates that same error unchanged to its caller.                     *)
C8_ErrorPropagatedUnchanged ==
    (pc = "done" /\ httpResult.state = "thrown") => callResult = httpResult

(* C9: for every signed HTTP request the signature is computed over the    *)
(* canonical encoding of {type, timestamp, expiry_window?, data: payload}, *)
(* the payload nested under data; the transmitted body is {account,        *)
(* signature, timestamp, expiry_window?, ...payload}, the payload          *)
(* flattened; and the timestamp, the expiry_window and every payload field *)
(* of the body equal those of the message that was signed.                 *)
C9_SignedNestedSentFlattened ==
    httpSent.state = "sent" =>
        LET b == httpSent.body
            m == httpSent.signed.o
            payload == httpSent.payload.o
        IN  /\ Keys(m) = {"type", "timestamp", "expiry_window", "data"}
            /\ Get(m, "type") = Str(submitted.operation)
            /\ Get(m, "data") = httpSent.payload
            /\ Get(b, "signature").sig.msg = createCompactJson(httpSent.signed)
            /\ Keys(b) = {"account", "signature", "timestamp", "expiry_window"}
                            \cup Keys(payload)
            /\ Get(b, "timestamp") = Get(m, "timestamp")
            /\ Get(b, "expiry_window") = Get(m, "expiry_window")
            /\ \A k \in Keys(payload) : Get(b, k) = Get(Get(m, "data").o, k)

(* C10: an authenticated action sent over the streaming transport carries  *)
(* the same signed envelope as the HTTP transport sends for the same       *)
(* operation and payload (account, signature, timestamp, payload fields    *)
(* flattened to the top level), wrapped as a typed frame.                  *)
C10_StreamingSameEnvelope ==
    (httpSent.state = "sent" /\ ~httpSent.hardware /\ wsSent.state = "sent"
       /\ httpSent.at = wsSent.at) =>
        LET f == wsSent.body
            b == httpSent.body
        IN  /\ Get(f, "type") = Str("operation")
            /\ Keys(f) \ {"type", "agent_wallet"} = Keys(b)
            /\ \A k \in Keys(b) : Has(f, k) /\ Get(f, k) = Get(b, k)

(* C11: for the same operation, payload, account identity and expiry       *)
(* window the hardware-signing variant transmits the same envelope as the  *)
(* software signer except for the signature value; in particular the       *)
(* account field is the same normalized (base-58) address whether the      *)
(* identity was supplied in hexadecimal or in base-58.                     *)
C11_HardwareSameEnvelope ==
    (httpSent.state = "sent" /\ httpSent.hardware) =>
        LET b == httpSent.body
            software == requestBody(
                buildSignedRequest(submitted.operation, httpSent.payload, privateKey,
                                   accountOf(accountPublicKey, privateKey),
                                   Num(defaultExpiryWindow), httpSent.at).request,
                httpSent.payload)
        IN  /\ Keys(b) = Keys(software)
            /\ \A k \in Keys(b) \ {"signature"} : Get(b, k) = Get(software, k)
            /\ Get(b, "account").id.enc = "base58"

(* C12: a signature string returned by signMessage for message m under a   *)
(* key derived by generateKeypair is accepted by verifySignature for the   *)
(* same m and the derived public key; for a different message, or an       *)
(* altered or malformed signature, verifySignature returns false.          *)
C12_SignedThenVerified ==
    (verified.state = "done" /\ keyResult.state = "returned") =>
        LET sig == verified.sig
            genuine == signMessage(verified.msg, keyResult.privateKey)
        IN  /\ sig = genuine => verified.result = TRUE
            /\ (\/ sig.msg # verified.msg
                \/ sig.signer # keyResult.privateKey
                \/ sig.len # SignatureBytes) => verified.result = FALSE

-----------------------------------------------------------------------------
(* Reading values and canonical strings *)

(* Structural equality: the same fields with structurally equal values in  *)
(* whatever order they were inserted; arrays element by element, in order. *)
RECURSIVE StructEq(_, _)
StructEq(v, w) ==
    IF IsObj(v) /\ IsObj(w)
    THEN /\ Keys(v.o) = Keys(w.o)
         /\ \A k \in Keys(v.o) : StructEq(Get(v.o, k), Get(w.o, k))
    ELSE IF IsArr(v) /\ IsArr(w)
    THEN /\ Len(v.a) = Len(w.a)
         /\ \A i \in DOMAIN v.a : StructEq(v.a[i], w.a[i])
    ELSE ~IsObj(v) /\ ~IsObj(w) /\ ~IsArr(v) /\ ~IsArr(w) /\ v = w

(* Whether a field or an element of v is undefined or a function *)
RECURSIVE ContainsUnrendered(_)
ContainsUnrendered(v) ==
    IF IsObj(v) THEN \E i \in DOMAIN v.o : ContainsUnrendered(v.o[i].v)
    ELSE IF IsArr(v) THEN \E i \in DOMAIN v.a : ContainsUnrendered(v.a[i])
    ELSE Unrendered(v)

IsKeyTok(x) == "key" \in DOMAIN x
KeyRank(k) == CHOOSE r \in DOMAIN KeyOrder : KeyOrder[r] = k

(* Nesting depth of the token at position i of the text t, and whether the *)
(* tokens at i and j are fields of the same object                         *)
Depth(t, i) ==
    Cardinality({k \in 1..(i - 1) : t[k] \in {Punct("{"), Punct("[")}})
      - Cardinality({k \in 1..(i - 1) : t[k] \in {Punct("}"), Punct("]")}})
SameObject(t, i, j) ==
    /\ Depth(t, i) = Depth(t, j)
    /\ \A k \in i..j : Depth(t, k) >= Depth(t, i)

(* The field names of the text, in the order they are written *)
KeysWritten(t) == SelectSeq(t, IsKeyTok)

(* C13: createCompactJson is order-independent and idempotent: two         *)
(* structurally equal values built with different key insertion orders     *)
(* give the identical string, canonicalizing the value parsed back from a  *)
(* canonical string gives that same string, and                            *)
(* sortJsonKeys(sortJsonKeys(v)) equals sortJsonKeys(v).                   *)
C13_OrderIndependentIdempotent ==
    canonical.state = "returned" =>
        /\ (canonical.other # <<>> /\ StructEq(jsonValue, jsonOther)) =>
              canonical.value = canonical.other
        /\ canonical.reparsed # <<>> => canonical.reparsed = canonical.value
        /\ sortJsonKeys(sortJsonKeys(jsonValue)) = sortJsonKeys(jsonValue)

C13_Witness ==
    /\ canonical.state = "returned"
    /\ canonical.other # <<>>
    /\ canonical.reparsed # <<>>
    /\ jsonValue # jsonOther
    /\ StructEq(jsonValue, jsonOther)
    /\ sortJsonKeys(jsonValue) # jsonValue

(* C14: in the string produced by createCompactJson the fields of every    *)
(* object, at every depth and inside arrays, appear in strictly ascending  *)
(* lexicographic order of their keys, for any string keys (numeric-looking *)
(* keys included); array elements keep their order; no whitespace is       *)
(* emitted; {z:1,a:2,m:3} has field order a,m,z and {a:1,b:2} gives        *)
(* {"a":1,"b":2}.                                                          *)
C14_KeysAscendingInText ==
    canonical.state = "returned" =>
        LET t == canonical.value
        IN  /\ \A i, j \in DOMAIN t :
                  (i < j /\ IsKeyTok(t[i]) /\ IsKeyTok(t[j]) /\ SameObject(t, i, j))
                     => KeyRank(t[i].key) < KeyRank(t[j].key)
            /\ ~ContainsUnrendered(jsonValue) => StructEq(JSONparse(t), jsonValue)
            /\ \A i \in DOMAIN t : t[i] \notin {Punct(" "), Punct("\n")}
            /\ Keys(jsonValue.o) = {"z", "a", "m"} =>
                  KeysWritten(t) = <<KeyTok("a"), KeyTok("m"), KeyTok("z")>>
            /\ jsonValue = MakeObj(<<Pair("a", Num(1)), Pair("b", Num(2))>>) =>
                  t = <<Punct("{"), KeyTok("a"), Punct(":"), Num(1), Punct(","),
                        KeyTok("b"), Punct(":"), Num(2), Punct("}")>>

(* C15: canonicalizing a value that contains a field or element with no    *)
(* canonical scalar rendering (undefined or a function) fails with an      *)
(* encoding error, so that no string to sign is produced from it.          *)
C15_UnrenderedRejected ==
    (canonical.state # "none" /\ ContainsUnrendered(jsonValue)) =>
        canonical.state = "thrown" /\ canonical.value = <<>>

-----------------------------------------------------------------------------
(* Reading a key string as its three encodings *)

(* The bytes a string decodes to as hexadecimal (after an optional 0x), as *)
(* base-58 and as base-64, when it is a text of that encoding.             *)
HexDecoding(t) ==
    IF ~t.validHex THEN NoBytes ELSE IF t.has0x THEN t.rest.hex ELSE t.hex
Base58Decoding(t) == IF t.base58 THEN t.b58 ELSE NoBytes
Base64Decoding(t) == IF t.validBase64 THEN t.b64 ELSE NoBytes

(* The key of the first encoding, in the order hexadecimal, base-58,       *)
(* base-64, whose decoding has an expected length; NoBytes if none has.    *)
FirstKeyOf(t) ==
    IF ByteLen(HexDecoding(t)) = KeyBytes THEN HexDecoding(t)
    ELSE IF ByteLen(Base58Decoding(t)) \in {KeyBytes, 2 * KeyBytes}
    THEN Slice(Base58Decoding(t), KeyBytes)
    ELSE IF ByteLen(Base64Decoding(t)) = KeyBytes THEN Base64Decoding(t)
    ELSE NoBytes

(* C16: generateKeypair tries the encodings of a string key in the order   *)
(* hexadecimal, base-58, base-64 and returns the key of the first encoding *)
(* whose decoding has exactly an expected byte length (32 bytes, or for    *)
(* base-58 also the 64-byte secret+public form); a decoding of any other   *)
(* length is never accepted as key material.                               *)
C16_FirstEncodingOfExpectedLength ==
    (keyInput.type = "string" /\ keyResult # NoKeypair) =>
        /\ FirstKeyOf(keyInput) # NoBytes =>
              keyResult.state = "returned" /\ keyResult.privateKey = FirstKeyOf(keyInput)
        /\ keyResult.state = "returned" =>
              FirstKeyOf(keyInput) # NoBytes /\ keyResult.privateKey = FirstKeyOf(keyInput)

(* The 64 hexadecimal digits of a 32-byte secret, the same with a 0x       *)
(* prefix, and the base-64 text of the same 32 bytes                       *)
TextsOfSecret(b) ==
    { HexText(b, TRUE), HexText(b, FALSE), Prefix0x(HexText(b, TRUE)),
      Prefix0x(HexText(b, FALSE)), Base64Text(b) }

(* C17: a 64-character hexadecimal private-key string resolves to the 32   *)
(* bytes it encodes: generateKeypair of the hex string, of the same string *)
(* with a 0x prefix and of the base-64 encoding of the same 32 bytes all   *)
(* succeed and return identical 32-byte private and public keys.           *)
C17_HexAndBase64SameKey ==
    (keyInput \in TextsOfSecret(Secret("S1")) /\ keyResult # NoKeypair) =>
        /\ keyResult.state = "returned"
        /\ keyResult.privateKey = Secret("S1")
        /\ keyResult.publicKey = getPublicKey(Secret("S1"))

(* C18: whenever generateKeypair returns, the private key is exactly 32    *)
(* bytes; for a base-58 string that decodes to exactly 64 bytes it is the  *)
(* leading 32 bytes; a raw byte array whose length is not 32 is rejected   *)
(* with an error; and a string for which none of the three decodings       *)
(* yields a key of the expected length is rejected with the                *)
(* invalid-key-format error.                                               *)
C18_ThirtyTwoBytesOrRejected ==
    keyResult # NoKeypair =>
        /\ keyResult.state = "returned" => ByteLen(keyResult.privateKey) = KeyBytes
        /\ (keyInput.type = "string" /\ ByteLen(Base58Decoding(keyInput)) = 2 * KeyBytes
              /\ ByteLen(HexDecoding(keyInput)) # KeyBytes) =>
              /\ keyResult.state = "returned"
              /\ keyResult.privateKey = Slice(keyInput.b58, KeyBytes)
        /\ (keyInput.type = "bytes" /\ ByteLen(keyInput.bytes) # KeyBytes) =>
              keyResult = KeyError("Invalid private key length")
        /\ (keyInput.type = "string" /\ FirstKeyOf(keyInput) = NoBytes) =>
              keyResult = KeyError("Invalid private key format")

-----------------------------------------------------------------------------
(* The streaming client *)

(* The subscribe frames among the frames a call or handler sent *)
SubscribedChannels(op) ==
    {op.frames[i].channel : i \in {j \in DOMAIN op.frames : op.frames[j].type = "subscribe"}}

(* The socket whose open event was handled last is the client's socket and *)
(* was made by a reconnect timer, that is, after an unexpected close.      *)
ReopenedByReconnect ==
    /\ lastOp.name = "open"
    /\ lastOp.socket = ws
    /\ sockets[lastOp.socket].by = "timer"

(* C19: if channels are subscribed, the socket closes unexpectedly and the *)
(* client reconnects, the open transition of the new socket sends          *)
(* subscribe frames for exactly the channels of the subscription set at    *)
(* that moment: none is missing, none that was unsubscribed is sent.       *)
C19_ReconnectReplaysSubscriptions ==
    ReopenedByReconnect =>
        /\ SubscribedChannels(lastOp) = Elements(subscriptions)
        /\ \A i \in DOMAIN lastOp.frames : lastOp.frames[i].type = "subscribe"

C19_Witness ==
    /\ ReopenedByReconnect
    /\ Elements(subscriptions) = {"A", "B"}
    /\ Len(lastOp.frames) = 2

(* C20: the subscription set is changed only by subscribe calls (add),     *)
(* unsubscribe calls (remove) and disconnect (clear); socket close events, *)
(* error events, reconnect scheduling and open events leave it unchanged.  *)
C20_SubscriptionsChangedOnlyByCalls ==
    [][ /\ subscriptions' # subscriptions =>
              \/ /\ lastOp'.name = "subscribe"
                 /\ subscriptions' = Append(subscriptions, lastOp'.arg)
              \/ /\ lastOp'.name = "unsubscribe"
                 /\ subscriptions' = SetDelete(subscriptions, lastOp'.arg)
              \/ /\ lastOp'.name = "disconnect"
                 /\ subscriptions' = <<>>
        /\ lastOp'.name \in {"open", "error", "close", "timer", "connect"} =>
              subscriptions' = subscriptions ]_vars

C20_Witness ==
    /\ lastOp.name = "close"
    /\ reconnectTimer # 0
    /\ timers[reconnectTimer].pending
    /\ Len(subscriptions) = 2

(* C21: subscribing to a channel that is already in the subscription set   *)
(* is a no-op for the transport, whether the socket is open or not: the    *)
(* set is unchanged and no further subscribe frame is sent.                *)
C21_SubscribeTwiceSendsNothing ==
    [][ (lastOp'.name = "subscribe" /\ lastOp'.arg \in Elements(subscriptions)) =>
            /\ subscriptions' = subscriptions
            /\ lastOp'.frames = <<>> ]_vars

(* C22: subscribe and unsubscribe calls made while the socket is not open  *)
(* send no frame and only add to or remove from the subscription set; at   *)
(* the next open transition the channels then in the set are sent as       *)
(* subscribe frames, in the order in which those subscriptions were        *)
(* requested (a new request goes to the end, a removal keeps the order of  *)
(* the rest).                                                              *)
C22_OfflineCallsQueueInOrder ==
    [][ /\ (lastOp'.name = "subscribe" /\ ~IsOpen(ws, sockets)) =>
              /\ lastOp'.frames = <<>>
              /\ subscriptions' = IF lastOp'.arg \in Elements(subscriptions)
                                  THEN subscriptions
                                  ELSE Append(subscriptions, lastOp'.arg)
        /\ (lastOp'.name = "unsubscribe" /\ ~IsOpen(ws, sockets)) =>
              /\ lastOp'.frames = <<>>
              /\ subscriptions' = SelectSeq(subscriptions, LAMBDA c : c # lastOp'.arg)
        /\ (lastOp'.name = "open" /\ lastOp'.socket = ws') =>
              lastOp'.frames = [i \in DOMAIN subscriptions |->
                                   [type |-> "subscribe", channel |-> subscriptions[i]]]
      ]_vars

C22_Witness ==
    /\ lastOp.name = "open"
    /\ lastOp.socket = ws
    /\ Len(sockets) = 1
    /\ subscriptions = <<"B", "A">>
    /\ lastOp.frames = <<SubscribeFrame("B"), SubscribeFrame("A")>>

(* The close event of socket s has been handled and the reconnect decision *)
(* for it was taken: a timer is pending, or reconnection is disabled, or   *)
(* the attempt limit had been reached.                                     *)
CloseHandled(s) ==
    /\ lastOp.name = "close"
    /\ lastOp.socket = s
    /\ \/ ~config.reconnect
       \/ lastOp.emitted = <<(<<"close">>), (<<"error">>)>>
       \/ /\ reconnectTimer # 0
          /\ timers[reconnectTimer].pending
          /\ lastOp.emitted = <<(<<"close">>), (<<"reconnect", reconnectAttempts>>)>>

(* C23: every unsolicited socket close or transport-level error leads to   *)
(* a scheduled reconnect attempt when reconnection is enabled and the      *)
(* attempt limit has not been reached, and to no reconnect attempt at all  *)
(* when reconnection is disabled.                                          *)
C23_CloseOrErrorSchedulesReconnect ==
    /\ [][ lastOp'.name = "close" =>
             /\ (config.reconnect /\ reconnectAttempts < config.maxReconnectAttempts) =>
                   /\ Len(timers') = Len(timers) + 1
                   /\ reconnectTimer' = Len(timers')
                   /\ timers'[reconnectTimer'].pending
             /\ ~config.reconnect => timers' = timers ]_vars
    /\ [](~config.reconnect =>
             /\ timers = <<>>
             /\ reconnectTimer = 0
             /\ \A s \in DOMAIN sockets : sockets[s].by # "timer")
    /\ \A s \in 1..MaxSockets :
          (s \in DOMAIN sockets /\ lastOp.name = "error" /\ lastOp.socket = s)
             ~> CloseHandled(s)

C23_Witness ==
    /\ lastOp.name = "close"
    /\ lastOp.socket = ws
    /\ config.reconnect
    /\ reconnectTimer = Len(timers)
    /\ reconnectTimer # 0
    /\ timers[reconnectTimer].pending

(* min(reconnectInterval * 2^(n-1), 60000) *)
ClaimedDelay(n) ==
    LET grown == config.reconnectInterval * Pow2(n - 1)
    IN  IF grown <= 60000 THEN grown ELSE 60000

(* C24: the delay before reconnect attempt n (n >= 1, counted since the    *)
(* last successful open) is min(reconnectInterval * 2^(n-1), 60000)        *)
(* milliseconds: it starts at reconnectInterval, doubles with each         *)
(* consecutive attempt and never exceeds 60 seconds.                       *)
C24_ReconnectDelayDoublesToCap ==
    /\ [](\A t \in DOMAIN timers :
             /\ timers[t].attempt >= 1
             /\ timers[t].delay = ClaimedDelay(timers[t].attempt)
             /\ timers[t].delay <= 60000)
    /\ [][ /\ lastOp'.name = "open" => reconnectAttempts' = 0
           /\ Len(timers') > Len(timers) =>
                 /\ timers'[Len(timers')].attempt = reconnectAttempts + 1
                 /\ reconnectAttempts' = reconnectAttempts + 1
           /\ (Len(timers') = Len(timers) /\ lastOp'.name # "open") =>
                 reconnectAttempts' = reconnectAttempts ]_vars

C24_Witness ==
    \E t \in DOMAIN timers :
        /\ t > 1
        /\ timers[t - 1].attempt = 1
        /\ timers[t - 1].delay = 40000
        /\ timers[t].attempt = 2
        /\ timers[t].delay = 60000

(* C25: the number of consecutive reconnect attempts since the last        *)
(* successful open never exceeds maxReconnectAttempts; when a close occurs *)
(* with the limit reached, no further attempt is scheduled and an error    *)
(* event is emitted; a successful open resets the count to zero.           *)
C25_ReconnectAttemptsBounded ==
    /\ [](/\ reconnectAttempts <= config.maxReconnectAttempts
          /\ \A t \in DOMAIN timers :
                /\ timers[t].attempt <= config.maxReconnectAttempts
                /\ t > 1 => \/ timers[t].attempt = timers[t - 1].attempt + 1
                            \/ timers[t].attempt = 1)
    /\ [][ /\ (lastOp'.name = "close" /\ config.reconnect
                 /\ reconnectAttempts >= config.maxReconnectAttempts) =>
                 /\ timers' = timers
                 /\ reconnectTimer' = reconnectTimer
                 /\ lastOp'.emitted = <<(<<"close">>), (<<"error">>)>>
           /\ lastOp'.name = "open" => reconnectAttempts' = 0 ]_vars

C25_Witness ==
    /\ lastOp.name = "close"
    /\ config.reconnect
    /\ config.maxReconnectAttempts = MaxReconnectAttempts
    /\ reconnectAttempts = config.maxReconnectAttempts
    /\ Len(timers) = MaxReconnectAttempts
    /\ lastOp.emitted = <<(<<"close">>), (<<"error">>)>>

(* C26: calling disconnect() while a reconnect backoff timer is pending    *)
(* cancels that timer: the connection attempt that the timer would have    *)
(* started is never made (no timer that was pending before the call is     *)
(* pending after it).                                                      *)
C26_DisconnectCancelsPendingTimers ==
    [][ lastOp'.name = "disconnect" =>
            \A t \in DOMAIN timers : timers[t].pending => ~timers'[t].pending ]_vars

-----------------------------------------------------------------------------
(* Dispatch of inbound frames *)

(* The names of the events one handler emitted, in order *)
EventNames(op) == [i \in DOMAIN op.emitted |-> op.emitted[i][1]]

(* An inbound frame that parsed to an object has just been dispatched *)
FrameDispatched == lastOp.name = "message" /\ lastOp.arg.kind = "object"

TypedChannels == {"order_update", "trade", "ticker", "orderbook"}

TwapChannel(frame) ==
    IF "account_twap_orders" \in {frame.type, frame.source} THEN <<"twap_order">>
    ELSE IF "account_twap_order_updates" \in {frame.type, frame.source}
    THEN <<"twap_order_update">>
    ELSE <<>>

RECURSIVE AllInvocations(_, _)
AllInvocations(names, i) ==
    IF i > Len(names) THEN <<>>
    ELSE [j \in DOMAIN HandlersOf(names[i]) |-> <<names[i], HandlersOf(names[i])[j]>>]
         \o AllInvocations(names, i + 1)

(* C28: a handler that throws during dispatch does not stop the remaining  *)
(* handlers registered for the same event from being invoked, does not     *)
(* stop dispatch of later events and frames, and its exception does not    *)
(* propagate out of the dispatch; a frame that fails to parse produces an  *)
(* error event and later frames are still dispatched.                      *)
C28_ThrowingHandlersIsolated ==
    /\ [](/\ ~lastOp.escaped
          /\ lastOp.invoked = AllInvocations(EventNames(lastOp), 1)
          /\ lastOp.name = "message" =>
                /\ sockets[lastOp.socket].readyState = OPEN
                /\ lastOp.arg.kind = "garbage" => EventNames(lastOp) = <<"error">>
                /\ (lastOp.arg.kind = "object" /\ lastOp.arg.type = "trade") =>
                      EventNames(lastOp) = <<"message", "trade">>)
    /\ [][ lastOp'.name = "message" =>
              UNCHANGED <<config, ws, sockets, isConnecting, reconnectAttempts,
                          reconnectTimer, timers, subscriptions, eventHandlers>> ]_vars

C28_Witness ==
    /\ lastOp.name = "message"
    /\ lastOp.arg.kind = "object"
    /\ lastOp.arg.type = "trade"
    /\ eventHandlers["message"] = <<"throws", "returns">>
    /\ eventHandlers["trade"] = <<"throws", "returns">>
    /\ lastOp.invoked = << <<"message", "throws">>, <<"message", "returns">>,
                           <<"trade", "throws">>, <<"trade", "returns">> >>

-----------------------------------------------------------------------------
(* The order methods of SignClient *)

(* The builder code an order made from params is to carry: the caller's,   *)
(* or else the configured one                                              *)
ExpectedBuilderCode(params) ==
    IF Has(params.o, "builder_code") THEN Get(params.o, "builder_code")
    ELSE Str(builderCode)

(* builder_code is a field of the data that was signed and of the body sent *)
CarriesBuilderCode(signed, body, code) ==
    /\ Has(Get(signed.o, "data").o, "builder_code")
    /\ Get(Get(signed.o, "data").o, "builder_code") = code
    /\ Has(body, "builder_code")
    /\ Get(body, "builder_code") = code

SingleOrderSent ==
    /\ httpSent.state = "sent"
    /\ "method" \in DOMAIN httpSent
    /\ httpSent.method \in OrderMethods

BatchSent ==
    /\ httpSent.state = "sent"
    /\ "method" \in DOMAIN httpSent
    /\ httpSent.method = "batchOrders"

(* C29: when a builder code is configured on a SignClient, every           *)
(* order-creating request it sends (limit, market, stop, TWAP, and each    *)
(* Create action of a batch) carries builder_code both in the signed       *)
(* message and in the transmitted body, with the configured value unless   *)
(* the caller's parameters already contain a builder_code, which is then   *)
(* kept.                                                                   *)
C29_OrdersCarryBuilderCode ==
    builderCode # "" =>
        /\ SingleOrderSent =>
              CarriesBuilderCode(httpSent.signed, httpSent.body,
                                 ExpectedBuilderCode(httpSent.params))
        /\ BatchSent =>
              \A i \in DOMAIN httpSent.params :
                  httpSent.params[i].type = "Create" =>
                      CarriesBuilderCode(httpSent.signed[i],
                          Get(Get(httpSent.body, "actions").a[i].o, "data").o,
                          ExpectedBuilderCode(httpSent.params[i].data))

(* C30: closePosition called with a market and no size submits one signed  *)
(* reduce-only market-order request that closes the entire position; a     *)
(* size is needed only for a partial close.                                *)
C30_ClosePositionWithoutSize ==
    ("method" \in DOMAIN httpSent /\ httpSent.method = "closePosition"
        /\ ~Has(httpSent.params.o, "size")) =>
        /\ httpSent.state = "sent"
        /\ httpSent.operation = "create_market_order"
        /\ Get(httpSent.body, "symbol") = Get(httpSent.params.o, "market")
        /\ Get(httpSent.body, "reduce_only") = Bool(TRUE)
        /\ Get(Get(httpSent.signed.o, "data").o, "reduce_only") = Bool(TRUE)
        /\ Has(httpSent.body, "signature")

-----------------------------------------------------------------------------
(* The connection after disconnect() and under interleavings *)

(* disconnect() was the last call that changed this.ws: the client has no  *)
(* socket, and had one                                                     *)
Disconnected == ws = 0 /\ sockets # <<>>

(* C31: after a caller-initiated disconnect(), the client makes no         *)
(* connection attempt until connect() is called again: a close event       *)
(* handled while the client is disconnected schedules no reconnect, and no *)
(* reconnect timer creates a socket, also when reconnection is enabled.    *)
C31_NoReconnectAfterDisconnect ==
    [][Disconnected =>
          /\ lastOp'.name = "close" => timers' = timers
          /\ lastOp'.name = "timer" => sockets' = sockets]_vars


(* The sockets that are connecting or open *)
LiveSockets == {s \in DOMAIN sockets : sockets[s].readyState \in {CONNECTING, OPEN}}

(* An event of a socket that is not the client's current one was handled *)
StaleEventHandled ==
    /\ lastOp'.name \in {"open", "error", "close"}
    /\ lastOp'.socket # ws

(* C32: under every interleaving of connect(), disconnect(), socket        *)
(* open/error/close events and reconnect timers, a WebSocketClient has at  *)
(* most one socket that is connecting or open, and isConnecting is true    *)
(* only while the client's current socket is connecting; events of a       *)
(* socket that has been replaced or disconnected do not change the         *)
(* connection state of the current one.                                    *)
C32_AtMostOneLiveSocket ==
    /\ [](Cardinality(LiveSockets) <= 1)
    /\ [](isConnecting => ws # 0 /\ sockets[ws].readyState = CONNECTING)
    /\ [][StaleEventHandled => isConnecting' = isConnecting]_vars


(* C33: whenever the promise returned by connect() resolves, the client's  *)
(* socket is open, also when connect() is called while an earlier          *)
(* connect() is still in progress; when the connection attempt fails (the  *)
(* socket reports an error before it opened), the promise rejects.         *)
C33_ConnectResolvesWhenOpen ==
    /\ []((lastOp.name \in {"connect", "open"} /\ lastOp.arg = "resolved") =>
             IsOpen(ws, sockets))
    /\ [][(lastOp'.name = "error" /\ sockets[lastOp'.socket].readyState # OPEN) =>
              lastOp'.arg = "rejected"]_vars

(* The subscribe frames for channel c among the frames of an operation *)
SubscribeFramesFor(op, c) ==
    {i \in DOMAIN op.frames : op.frames[i] = SubscribeFrame(c)}

(* C34: on each open transition of the client's socket, exactly one        *)
(* subscribe frame is sent for each channel of the subscription set, also  *)
(* when a handler of the 'open' event itself calls subscribe: no channel   *)
(* gets a duplicate subscribe frame.                                       *)
C34_OneSubscribeFramePerChannelAtOpen ==
    (lastOp.name = "open" /\ lastOp.socket = ws) =>
        \A c \in Elements(subscriptions) :
            Cardinality(SubscribeFramesFor(lastOp, c)) = 1


(* The frames an operation handed to the socket *)
FramesOf(op) == {op.frames[i] : i \in DOMAIN op.frames}

(* C35: every subscription in the set is restored after a reconnect with   *)
(* the same frame that subscribed it originally: a TWAP subscription made  *)
(* with subscribeToTWAPOrders or subscribeToTWAPOrderUpdates is re-sent on *)
(* the next open as the same method/params subscribe frame (source and     *)
(* account) that was sent the first time.                                  *)
C35_TwapSubscriptionsRestoredAsSent ==
    (lastOp.name = "open" /\ lastOp.socket = ws) =>
        \A account \in Accounts :
            /\ TwapOrdersChannel(account) \in Elements(subscriptions) =>
                  TwapSubscribeFrame("account_twap_orders", account) \in FramesOf(lastOp)
            /\ TwapOrderUpdatesChannel(account) \in Elements(subscriptions) =>
                  TwapSubscribeFrame("account_twap_order_updates", account)
                      \in FramesOf(lastOp)


-----------------------------------------------------------------------------
(* Signed operations on the streaming transport *)

(* A call of sendSignedOperation ran up to its first await, or ended there *)
SignedOperationCalled ==
    /\ submitted # NoRequest
    /\ ~wsPending
    /\ readyState' = readyState
    /\ now' = now
    /\ (wsPending' \/ wsSent' # wsSent)

(* A call of sendSignedOperation that was waiting for the signature ended *)
SignedOperationEnded == wsPending /\ ~wsPending'

(* An error raised at time now, with no frame *)
FailedNow == [NothingSent EXCEPT !.state = "error", !.at = now]

(* C36: a signed operation requested on the streaming transport is never   *)
(* silently dropped: sendSignedOperation either transmits exactly one      *)
(* frame on the open socket or fails with an error (no private key, or     *)
(* socket not open at the call or at the time of sending after signing);   *)
(* it never queues the action for a later connection.                      *)
C36_SignedOperationSentOrFails ==
    /\ [][SignedOperationCalled =>
             IF privateKey = NoPrivateKey \/ readyState # OPEN
             THEN wsSent' = FailedNow /\ ~wsPending'
             ELSE wsPending' /\ wsSent' = wsSent]_vars
    /\ [][SignedOperationEnded =>
             IF readyState # OPEN
             THEN wsSent' = FailedNow
             ELSE /\ wsSent'.state = "sent"
                  /\ wsSent'.at = now
                  /\ Get(wsSent'.body, "type") = Str("operation")
                  /\ Get(wsSent'.body, "operation") = Str(submitted.operation)
                  /\ Has(wsSent'.body, "signature")]_vars
    /\ [][(~SignedOperationCalled /\ ~SignedOperationEnded) => wsSent' = wsSent]_vars

C36_Witness ==
    /\ wsSent.state = "sent"
    /\ ~wsPending
    /\ readyState # OPEN
    /\ wsSent.at < now


-----------------------------------------------------------------------------
(* The envelope fields of a transmitted body *)

(* The body has the signer's values in its envelope fields: the account    *)
(* and the signature are the signer's, the timestamp and the expiry window *)
(* are those of the signed message                                         *)
EnvelopeFromSigner(body, signed) ==
    /\ Has(body, "account") /\ "id" \in DOMAIN Get(body, "account")
    /\ Has(body, "signature") /\ "sig" \in DOMAIN Get(body, "signature")
    /\ Has(body, "timestamp") /\ Get(body, "timestamp") = Get(signed.o, "timestamp")
    /\ Has(signed.o, "expiry_window") =>
          /\ Has(body, "expiry_window")
          /\ Get(body, "expiry_window") = Get(signed.o, "expiry_window")

(* C37: in every transmitted signed body (single request and               *)
(* hardware-signed request), the fields account, signature, timestamp and  *)
(* expiry_window hold the values produced by the signer for every payload, *)
(* including a payload that itself has a field with one of those names.    *)
C37_EnvelopeFieldsFromSigner ==
    httpSent.state = "sent" => EnvelopeFromSigner(httpSent.body, httpSent.signed)


(* An account public key and an agent wallet are configured *)
AgentConfigured == accountPublicKey # NoKey /\ agentWalletPublicKey # NoKey

(* The account field of a body names the configured account *)
AccountIsConfiguredAccount(body) ==
    /\ Has(body, "account")
    /\ "id" \in DOMAIN Get(body, "account")
    /\ Get(body, "account").id.key = accountPublicKey.key

(* C38: when both an account public key and an agent wallet are            *)
(* configured, the account field of every signed envelope is the account   *)
(* public key and the agent wallet key appears only in the separate        *)
(* agent_wallet field or header, on the HTTP transport and on the          *)
(* streaming transport alike.                                              *)
C38_AccountFieldIsAccountKey ==
    AgentConfigured =>
        /\ httpSent.state = "sent" => AccountIsConfiguredAccount(httpSent.body)
        /\ wsSent.state = "sent" => AccountIsConfiguredAccount(wsSent.body)


-----------------------------------------------------------------------------
(* Request URLs *)

(* How often the version prefix occurs in a URL *)
VersionPrefixes(url) == Cardinality({i \in DOMAIN url : url[i] = ApiV1})

(* C39: for every request made by a client method, the URL is the          *)
(* normalized base URL, which ends in /api/v1 with no trailing slash,      *)
(* followed by an endpoint path that does not itself start with /api/v1,   *)
(* so the version prefix occurs exactly once in the URL.                   *)
C39_VersionPrefixOnce ==
    (httpSent.state = "sent" /\ "url" \in DOMAIN httpSent) =>
        /\ EndsWith(baseUrl, <<ApiV1>>)
        /\ httpSent.url = baseUrl \o EndpointPath(httpSent.endpoint)
        /\ EndpointPath(httpSent.endpoint)[1] # ApiV1
        /\ VersionPrefixes(httpSent.url) = 1


=============================================================================
